---- MODULE Spec2Model ----
(***************************************************************************)
(* Organization page of the employee management dashboard                  *)
(* (src/src/pages/Organization.tsx): the employee snapshot, the department *)
(* filter, and buildOrgChart with its recursive sortNodes pass.            *)
(*                                                                         *)
(* Node objects are identified by employee id: employeeMap holds at most   *)
(* one node object per id, and every reference pushed into rootNodes or    *)
(* into a children array is obtained by employeeMap.get(id).               *)
(***************************************************************************)
EXTENDS Integers, Sequences, FiniteSets, TLC

VARIABLES
    employees,          \* useState<Employee[]>            (Organization.tsx:14)
    orgChart,           \* useState<OrgNode[]>, the displayed forest      (:15)
    loading,            \* useState(true)                                 (:16)
    selectedDepartment, \* useState('all')                                (:18)
    departments,        \* useState<string[]>                             (:19)
    pc,                 \* position: "mount", "idle", "build", "sort"
    filteredEmployees,  \* local of buildOrgChart                         (:60)
    employeeMap,        \* local of buildOrgChart: id -> node object      (:67)
    rootNodes,          \* local of buildOrgChart: array of node ids      (:73)
    childNodes,         \* local of buildOrgChart: Set of ids             (:74)
    stack,              \* call stack of sortNodes: frames [list, i]
    firstBuilt,         \* history: department -> forest of its first build
    steps,              \* history: steps of sortNodes taken by the latest build
    expandedNodes,      \* useState<Set<string>>(new Set())               (:17)
    authUser,           \* Firebase Auth: uid of the signed-in account, or None
    currentUser,        \* useState<User | null>(null)        (AuthContext.tsx:30)
    firebaseUser,       \* useState<FirebaseUser | null>(null)              (:31)
    authLoading,        \* useState(true), `loading` of AuthContext         (:32)
    authEvents,         \* auth state changes not yet passed to the listener
    authCalls,          \* calls of the auth context awaiting Firestore
    accounts,           \* Firebase Auth: uid -> displayName of the account, or None
    userDocs,           \* Firestore collection users: uid -> document, or NoDoc
    registered,         \* history: the role of the register call that succeeded, or None
    leaveDocs,          \* Firestore collection leaveRequests: id -> document
    leaveRequests,      \* useState<LeaveRequest[]>([]) of each session (part_001:559)
    leaveCalls,         \* calls of the LeaveRequests page awaiting Firestore
    attendanceDocs,     \* Firestore collection attendance: id -> document
    todayAttendance,    \* useState<AttendanceType | null>(null) of each tab (Attendance.tsx:16)
    attendanceLoading,  \* useState(true), `loading` of each tab's Attendance page  (:17)
    attendanceCalls,    \* calls of the Attendance page awaiting Firestore
    taskDocs,           \* Firestore collection tasks: id -> document
    tasks,              \* useState<Task[]>([]) of each session          (part_001:19)
    taskCalls,          \* calls of the Tasks page awaiting Firestore
    notifications,      \* Firestore collection notifications, in order of creation
    employeeDocs,       \* Firestore collection employees: id -> document
    creation,           \* createTaskForEmployee: position and locals of the call
    sync                \* Sync Accounts handler: position and locals of the run

vars == <<employees, orgChart, loading, selectedDepartment, departments, pc,
          filteredEmployees, employeeMap, rootNodes, childNodes, stack, firstBuilt, steps,
          expandedNodes, authUser, currentUser, firebaseUser, authLoading, authEvents,
          authCalls, accounts, userDocs, registered, leaveDocs, leaveRequests, leaveCalls,
          attendanceDocs, todayAttendance, attendanceLoading, attendanceCalls, taskDocs,
          tasks, taskCalls, notifications, employeeDocs, creation, sync>>

authVars == <<authUser, currentUser, firebaseUser, authLoading, authEvents, authCalls>>

\* The state outside the Organization page and the auth context: Firebase
\* Auth's accounts and the Firestore collections.
userVars == <<accounts, userDocs, registered>>

leaveVars == <<leaveDocs, leaveRequests, leaveCalls>>

attendanceVars == <<attendanceDocs, todayAttendance, attendanceLoading, attendanceCalls>>

taskVars == <<taskDocs, tasks, taskCalls>>

migrationVars == <<employeeDocs, creation, sync>>

workVars == <<leaveVars, attendanceVars, taskVars, notifications, migrationVars>>

appVars == <<userVars, workVars>>

-----------------------------------------------------------------------------
(* Bounds of the model *)

MaxEmployees == 3

MaxCallDepth == 6

MaxBuilderInput == 3

MaxPageEmployees == 3

MaxAuthPending == 2

-----------------------------------------------------------------------------
(* Values *)

Undefined == "<undefined>"

All == "all"

NotBuilt == [built |-> FALSE, forest |-> <<>>]

Roles == {"admin", "manager", "employee"}

Depts == {"Eng", "Sales"}

IdSeq == <<"e1", "e2", "e3", "e4", "e5">>

IdOf(i) == IdSeq[i]

Dangling == "zz"

\* Names are sequences of characters, so that localeCompare can be computed.
Names == {<<"a", "b">>, <<"b">>, <<"B">>}

Lower == <<"a", "b", "c", "d", "e", "f", "g", "h", "i", "j", "k", "l", "m",
          "n", "o", "p", "q", "r", "s", "t", "u", "v", "w", "x", "y", "z">>

Upper == <<"A", "B", "C", "D", "E", "F", "G", "H", "I", "J", "K", "L", "M",
          "N", "O", "P", "Q", "R", "S", "T", "U", "V", "W", "X", "Y", "Z">>

\* The position of each character's letter in the alphabet, case ignored.
LetterIndex ==
    [c \in {Lower[k] : k \in 1..Len(Lower)} \cup {Upper[k] : k \in 1..Len(Upper)} |->
        CHOOSE k \in 1..Len(Lower) : c \in {Lower[k], Upper[k]}]

UpperCase == {Upper[k] : k \in 1..Len(Upper)}

Letter(c) == LetterIndex[c]

IsUpper(c) == c \in UpperCase

Min(a, b) == IF a <= b THEN a ELSE b

\* String.prototype.localeCompare under the default collation: letters decide
\* first (case ignored, a prefix before its extensions); between strings with
\* the same letters the first case difference decides, lower case first.
LocaleCompare(a, b) ==
    LET n == Min(Len(a), Len(b))
        pd == {i \in 1..n : Letter(a[i]) # Letter(b[i])}
        cd == {i \in 1..n : IsUpper(a[i]) # IsUpper(b[i])}
        first(S) == CHOOSE i \in S : \A j \in S : i <= j
    IN  IF pd # {}
        THEN IF Letter(a[first(pd)]) < Letter(b[first(pd)]) THEN -1 ELSE 1
        ELSE IF Len(a) # Len(b)
        THEN IF Len(a) < Len(b) THEN -1 ELSE 1
        ELSE IF cd # {}
        THEN IF IsUpper(b[first(cd)]) THEN -1 ELSE 1
        ELSE 0

roleOrder == [admin |-> 0, manager |-> 1, employee |-> 2]

\* Accounts of the Firebase project and the role stored in users/{uid}
None == "<null>"

Users == {"u1", "u2", "u3"}

StoredRole == [u1 |-> "admin", u2 |-> "manager", u3 |-> "employee"]

\* The value null of currentUser, in the shape of a user
NoUser == [uid |-> None, role |-> None]

\* createUserDocument for an account whose document exists
UserData(uid) == [uid |-> uid, role |-> StoredRole[uid]]

\* The account that does not exist yet: the one register creates.
NewUser == "u4"

AllUsers == Users \cup {NewUser}

\* The name given on the register form, or held by the Google profile.
DisplayName == [u1 |-> "Ann", u2 |-> "Ben", u3 |-> "Cy", u4 |-> "Dee"]

\* getDoc(...).exists() is false
NoDoc == [role |-> None, displayName |-> None]

\* Firebase Auth and the users collection before the session: the three
\* accounts exist with their documents, NewUser has neither.
InitialAccounts == [uid \in AllUsers |-> IF uid \in Users THEN DisplayName[uid] ELSE None]

InitialUserDocs ==
    [uid \in AllUsers |->
        IF uid \in Users
        THEN [role |-> StoredRole[uid], displayName |-> DisplayName[uid]]
        ELSE NoDoc]

\* The browser sessions that use the pages: the admin's, the manager's, and
\* two tabs of the employee.  Each has its own auth context, settled on its
\* user.
Sessions == {"s1", "s2", "s3", "s4"}

SessionUser ==
    [s1 |-> UserData("u1"), s2 |-> UserData("u2"), s3 |-> UserData("u3"),
     s4 |-> UserData("u3")]

\* The employee's tabs
Tabs == {"s3", "s4"}

\* todayAttendance of a tab that has found no record of today
NoRecord == [id |-> 0, checkOut |-> FALSE]

\* No call of createTaskForEmployee, no run of Sync Accounts
Idle == [pc |-> "idle"]

\* The collections are empty and no page has fetched anything.
NoLeave ==
    /\ leaveDocs = <<>>
    /\ leaveRequests = [s \in Sessions |-> <<>>]
    /\ leaveCalls = <<>>

NoAttendance ==
    /\ attendanceDocs = <<>>
    /\ todayAttendance = [t \in Tabs |-> NoRecord]
    /\ attendanceLoading = [t \in Tabs |-> TRUE]
    /\ attendanceCalls = <<>>

NoTasks ==
    /\ taskDocs = <<>>
    /\ tasks = [s \in Sessions |-> <<>>]
    /\ taskCalls = <<>>

NoMigration ==
    /\ employeeDocs = <<>>
    /\ creation = Idle
    /\ sync = Idle

WorkInit ==
    /\ NoLeave
    /\ NoAttendance
    /\ NoTasks
    /\ notifications = <<>>
    /\ NoMigration

UsersInit ==
    /\ accounts = InitialAccounts
    /\ userDocs = InitialUserDocs
    /\ registered = None

AppInit ==
    /\ UsersInit
    /\ WorkInit

-----------------------------------------------------------------------------
(* Employee snapshots the data store can return.  Document ids are unique  *)
(* within the collection; record i carries id IdOf(i).                     *)

Employee(i, p) ==
    [id |-> IdOf(i), name |-> p.name, role |-> p.role,
     department |-> p.department, managerId |-> p.managerId]

\* Records that vary in department and manager reference: no manager (the
\* empty string), a manager that is no record, or any record of the snapshot.
StructureProfiles(n) ==
    [name : {<<"a", "b">>}, role : {"employee"}, department : Depts,
     managerId : {"", Dangling} \cup {IdOf(i) : i \in 1..n}]

\* Records that vary in role and name.
OrderProfiles == [name : Names, role : Roles]

\* The managers of a snapshot of the second kind: nobody reports to anybody,
\* or everybody but e1 reports to e1.
ManagerPatterns ==
    {[i \in 1..Len(IdSeq) |-> Undefined],
     [i \in 1..Len(IdSeq) |-> IF i = 1 THEN Undefined ELSE IdOf(1)]}

StructureSnapshot(n, p) == [i \in 1..n |-> Employee(i, p[i])]

OrderSnapshot(n, p, m) ==
    [i \in 1..n |-> Employee(i, [name |-> p[i].name, role |-> p[i].role,
                                 department |-> "Eng", managerId |-> m[i]])]

\* The snapshots of n records the model draws from.
IsSnapshot(snapshot, n) ==
    \/ \E p \in [1..n -> StructureProfiles(n)] : snapshot = StructureSnapshot(n, p)
    \/ \E p \in [1..n -> OrderProfiles], m \in ManagerPatterns :
          snapshot = OrderSnapshot(n, p, m)

-----------------------------------------------------------------------------
(* Pure helpers of the page *)

Range(s) == {s[i] : i \in 1..Len(s)}

\* [...new Set(employeeList.map(emp => emp.department))]: first occurrences,
\* in order.
RECURSIVE UniqueDepts(_)
UniqueDepts(list) ==
    IF list = <<>> THEN <<>>
    ELSE LET front == UniqueDepts(SubSeq(list, 1, Len(list) - 1))
             d == list[Len(list)].department
         IN  IF d \in Range(front) THEN front ELSE Append(front, d)

\* Array.prototype.filter with emp => emp.department === dept
RECURSIVE FilterByDept(_, _)
FilterByDept(list, dept) ==
    IF list = <<>> THEN <<>>
    ELSE LET front == FilterByDept(SubSeq(list, 1, Len(list) - 1), dept)
             emp == list[Len(list)]
         IN  IF emp.department = dept THEN Append(front, emp) ELSE front

\* Variant: the sentinel is not recognised and the filter always runs.
FilterEmployeesNoSentinel(list, dept) == FilterByDept(list, dept)

\* let filteredEmployees = employees; if (selectedDepartment !== 'all') ...
FilterEmployees(list, dept) ==
    IF dept # All THEN FilterByDept(list, dept) ELSE list

-----------------------------------------------------------------------------
(* buildOrgChart: lookup map and root/child placement *)

Front(s) == SubSeq(s, 1, Len(s) - 1)

Last(s) == s[Len(s)]

\* { ...emp, children: [] }
NewNode(emp) == [emp |-> emp, children |-> <<>>]

\* Variant: the lookup is built from the whole snapshot, not the filtered list.
BuildMapUnfiltered(list) ==
    [k \in {employees[i].id : i \in 1..Len(employees)} |->
        NewNode(employees[CHOOSE i \in 1..Len(employees) : employees[i].id = k])]

\* filteredEmployees.forEach(emp => employeeMap.set(emp.id, {...}))
RECURSIVE BuildMap(_)
BuildMap(list) ==
    IF list = <<>> THEN <<>>
    ELSE LET m == BuildMap(Front(list))
             emp == Last(list)
         IN  [k \in DOMAIN m \cup {emp.id} |->
                 IF k = emp.id THEN NewNode(emp) ELSE m[k]]

\* !emp.managerId : undefined and the empty string are falsy
Unset(managerId) == managerId \in {Undefined, ""}

\* Variant: the lookup of the manager is left out of the root test.
IsRootRecordNoLookup(emp, map) == Unset(emp.managerId)

\* !emp.managerId || !employeeMap.has(emp.managerId)
IsRootRecord(emp, map) ==
    Unset(emp.managerId) \/ emp.managerId \notin DOMAIN map

\* Variant: a self-managed record is pushed as a root and, the else being
\* lost, still appended to its manager's children.
LinkOneRootAndChild(acc, emp) ==
    LET asRoot == IsRootRecord(emp, acc.map) \/ emp.managerId = emp.id
        withRoot == IF asRoot THEN [acc EXCEPT !.roots = Append(@, emp.id)] ELSE acc
    IN  IF IsRootRecord(emp, acc.map) THEN withRoot
        ELSE [withRoot EXCEPT !.map[emp.managerId].children = Append(@, emp.id),
                              !.childs = @ \cup {emp.id}]

\* One iteration of the second forEach.
LinkOne(acc, emp) ==
    IF IsRootRecord(emp, acc.map)
    THEN [acc EXCEPT !.roots = Append(@, emp.id)]
    ELSE [acc EXCEPT !.map[emp.managerId].children = Append(@, emp.id),
                     !.childs = @ \cup {emp.id}]

\* Variant: one pass, in which a record whose manager comes later in the
\* list finds no node for it yet and becomes a root.
RECURSIVE LinkNodesSinglePass(_, _)
LinkNodesSinglePass(list, map) ==
    IF list = <<>> THEN [map |-> map, roots |-> <<>>, childs |-> {}]
    ELSE LET acc == LinkNodesSinglePass(Front(list), map)
             emp == Last(list)
             seen == {list[i].id : i \in 1..Len(list) - 1}
         IN  IF emp.managerId \notin seen
             THEN [acc EXCEPT !.roots = Append(@, emp.id)]
             ELSE LinkOne(acc, emp)

RECURSIVE LinkNodes(_, _)
LinkNodes(list, map) ==
    IF list = <<>> THEN [map |-> map, roots |-> <<>>, childs |-> {}]
    ELSE LinkOne(LinkNodes(Front(list), map), Last(list))

-----------------------------------------------------------------------------
(* sortNodes *)

\* Variant: the name tie-break is missing.
CompareNodesRoleOnly(a, b) == roleOrder[a.role] - roleOrder[b.role]

\* The comparator passed to nodes.sort
CompareNodes(a, b) ==
    LET roleComparison == roleOrder[a.role] - roleOrder[b.role]
    IN  IF roleComparison # 0 THEN roleComparison
        ELSE LocaleCompare(a.name, b.name)

\* Array.prototype.sort is stable: x goes behind every element that does not
\* compare greater than it.
RECURSIVE SortedInsert(_, _, _)
SortedInsert(s, x, map) ==
    IF s = <<>> THEN <<x>>
    ELSE IF CompareNodes(map[Last(s)].emp, map[x].emp) > 0
         THEN Append(SortedInsert(Front(s), x, map), Last(s))
         ELSE Append(s, x)

RECURSIVE SortList(_, _)
SortList(list, map) ==
    IF list = <<>> THEN <<>>
    ELSE SortedInsert(SortList(Front(list), map), Last(list), map)

RootList == "<rootNodes>"

\* The array a frame of sortNodes iterates over.
FrameList(frame) ==
    IF frame.list = RootList THEN rootNodes ELSE employeeMap[frame.list].children

\* The value handed to setOrgChart: the node objects reachable from rootNodes.
RECURSIVE NodeTree(_, _)
NodeTree(map, id) ==
    [emp |-> map[id].emp,
     children |-> [k \in 1..Len(map[id].children) |-> NodeTree(map, map[id].children[k])]]

Forest(map, roots) == [k \in 1..Len(roots) |-> NodeTree(map, roots[k])]

-----------------------------------------------------------------------------
(* Initial state: the component has mounted, the fetch is pending *)

\* The state of the auth context while the Organization page is shown: the
\* route is rendered by ProtectedRoute for a settled admin or manager user.
AuthSignedIn(uid) ==
    /\ authUser = uid
    /\ currentUser = UserData(uid)
    /\ firebaseUser = uid
    /\ authLoading = FALSE
    /\ authEvents = <<>>
    /\ authCalls = <<>>

\* The Organization page as it mounts
OrgMounted ==
    /\ employees = <<>>
    /\ orgChart = <<>>
    /\ loading = TRUE
    /\ selectedDepartment = All
    /\ departments = <<>>
    /\ pc = "mount"
    /\ filteredEmployees = <<>>
    /\ employeeMap = <<>>
    /\ rootNodes = <<>>
    /\ childNodes = {}
    /\ stack = <<>>
    /\ firstBuilt = [d \in {All} \cup Depts |-> NotBuilt]
    /\ steps = 0
    /\ expandedNodes = {}

Init ==
    /\ employees = <<>>
    /\ orgChart = <<>>
    /\ loading = TRUE
    /\ selectedDepartment = All
    /\ departments = <<>>
    /\ pc = "mount"
    /\ filteredEmployees = <<>>
    /\ employeeMap = <<>>
    /\ rootNodes = <<>>
    /\ childNodes = {}
    /\ stack = <<>>
    /\ firstBuilt = [d \in {All} \cup Depts |-> NotBuilt]
    /\ steps = 0
    /\ expandedNodes = {}
    /\ AuthSignedIn("u1")
    /\ AppInit

buildVars == <<filteredEmployees, employeeMap, rootNodes, childNodes, stack>>

histVars == <<firstBuilt>>

Tick == steps' = steps + 1

\* The effect on [employees, selectedDepartment]: buildOrgChart runs only
\* for a non-empty snapshot.
EffectTarget(list) == IF Len(list) > 0 THEN "build" ELSE "idle"

\* fetchEmployees, try branch
FetchEmployees ==
    /\ pc = "mount"
    /\ \E n \in 0..MaxEmployees :
          /\ IsSnapshot(employees', n)
          /\ departments' = UniqueDepts(employees')
          /\ pc' = EffectTarget(employees')
    /\ loading' = FALSE
    /\ UNCHANGED <<expandedNodes, authVars, appVars, orgChart, selectedDepartment, buildVars, histVars, steps>>

\* fetchEmployees, catch branch
FetchEmployeesFails ==
    /\ pc = "mount"
    /\ loading' = FALSE
    /\ pc' = "idle"
    /\ UNCHANGED <<expandedNodes, authVars, appVars, employees, orgChart, selectedDepartment, departments,
                   buildVars, histVars, steps>>

\* Variant: the department changes but the rebuild effect does not run.
SelectDepartmentKeepingForest ==
    /\ pc = "idle"
    /\ ~loading
    /\ \E d \in {All} \cup Range(departments) :
          /\ d # selectedDepartment
          /\ selectedDepartment' = d
    /\ UNCHANGED <<expandedNodes, authVars, appVars, employees, orgChart, loading, departments,
                   pc, buildVars, histVars, steps>>

\* onChange of the department select: the options are 'all' and departments
SelectDepartment ==
    /\ pc = "idle"
    /\ ~loading
    /\ \E d \in {All} \cup Range(departments) :
          /\ d # selectedDepartment
          /\ selectedDepartment' = d
    /\ pc' = EffectTarget(employees)
    /\ UNCHANGED <<expandedNodes, authVars, appVars, employees, orgChart, loading, departments, buildVars, histVars,
                   steps>>

\* Variant: rootNodes is not a new array but the input array itself, so for
\* 'all' the sort reorders the employees state in place.
BuildFromSortingInput(filtered, map) ==
    /\ pc = "build"
    /\ LET linked == LinkNodes(filtered, map)
           ids == [k \in 1..Len(employees) |-> employees[k].id]
           sorted == SortList(ids, linked.map)
       IN  /\ filteredEmployees' = filtered
           /\ employeeMap' = linked.map
           /\ childNodes' = linked.childs
           /\ rootNodes' = SortList(linked.roots, linked.map)
           /\ employees' = IF selectedDepartment = All
                           THEN [k \in 1..Len(sorted) |-> linked.map[sorted[k]].emp]
                           ELSE employees
    /\ stack' = <<[list |-> RootList, i |-> 1]>>
    /\ steps' = 0
    /\ pc' = "sort"
    /\ UNCHANGED <<expandedNodes, authVars, appVars, orgChart, loading, selectedDepartment,
                   departments, histVars>>

\* buildOrgChart from the lookup map on: placement of every record, then
\* the entry of sortNodes(rootNodes)
BuildFrom(filtered, map) ==
    /\ pc = "build"
    /\ LET linked == LinkNodes(filtered, map)
       IN  /\ filteredEmployees' = filtered
           /\ employeeMap' = linked.map
           /\ childNodes' = linked.childs
           /\ rootNodes' = SortList(linked.roots, linked.map)
    /\ stack' = <<[list |-> RootList, i |-> 1]>>
    /\ steps' = 0
    /\ pc' = "sort"
    /\ UNCHANGED <<expandedNodes, authVars, appVars, employees, orgChart, loading, selectedDepartment, departments,
                   histVars>>

\* Variant: the lookup map outlives the call and only missing ids are set,
\* so node objects of earlier builds are reused, children included.
BuildOrgChartReusingNodes ==
    LET filtered == FilterEmployees(employees, selectedDepartment)
        fresh == BuildMap(filtered)
    IN  BuildFrom(filtered,
                  [k \in DOMAIN employeeMap \cup DOMAIN fresh |->
                      IF k \in DOMAIN employeeMap THEN employeeMap[k] ELSE fresh[k]])

\* buildOrgChart up to the entry of sortNodes(rootNodes)
BuildOrgChart ==
    LET filtered == FilterEmployees(employees, selectedDepartment)
    IN  BuildFrom(filtered, BuildMap(filtered))

Top == stack[Len(stack)]

Advance == [stack EXCEPT ![Len(stack)].i = @ + 1]

pageVars == <<employees, loading, selectedDepartment, departments>>

\* nodes.forEach: a node without children is passed over
SortSkip ==
    /\ pc = "sort"
    /\ Top.i <= Len(FrameList(Top))
    /\ employeeMap[FrameList(Top)[Top.i]].children = <<>>
    /\ stack' = Advance
    /\ Tick
    /\ UNCHANGED <<expandedNodes, authVars, appVars, pageVars, orgChart, pc, filteredEmployees, employeeMap,
                   rootNodes, childNodes, histVars>>

\* Variant: the nested call iterates the children without sorting them.
SortRecurseUnsorted ==
    /\ pc = "sort"
    /\ Top.i <= Len(FrameList(Top))
    /\ Len(stack) < MaxCallDepth
    /\ LET id == FrameList(Top)[Top.i]
       IN  /\ employeeMap[id].children # <<>>
           /\ stack' = Append(Advance, [list |-> id, i |-> 1])
    /\ Tick
    /\ UNCHANGED <<expandedNodes, authVars, appVars, pageVars, orgChart, pc, filteredEmployees, employeeMap,
                   rootNodes, childNodes, histVars>>

\* nodes.forEach: sortNodes(node.children) sorts the array and iterates it
SortRecurse ==
    /\ pc = "sort"
    /\ Top.i <= Len(FrameList(Top))
    /\ Len(stack) < MaxCallDepth
    /\ LET id == FrameList(Top)[Top.i]
       IN  /\ employeeMap[id].children # <<>>
           /\ employeeMap' = [employeeMap EXCEPT
                                 ![id].children = SortList(@, employeeMap)]
           /\ stack' = Append(Advance, [list |-> id, i |-> 1])
    /\ Tick
    /\ UNCHANGED <<expandedNodes, authVars, appVars, pageVars, orgChart, pc, filteredEmployees, rootNodes,
                   childNodes, histVars>>

\* a nested sortNodes call returns
SortReturn ==
    /\ pc = "sort"
    /\ Top.i > Len(FrameList(Top))
    /\ Len(stack) > 1
    /\ stack' = Front(stack)
    /\ Tick
    /\ UNCHANGED <<expandedNodes, authVars, appVars, pageVars, orgChart, pc, filteredEmployees, employeeMap,
                   rootNodes, childNodes, histVars>>

\* Variant: the expansion set is reset together with the forest.
SetOrgChartCollapsing ==
    /\ pc = "sort"
    /\ Top.i > Len(FrameList(Top))
    /\ Len(stack) = 1
    /\ stack' = <<>>
    /\ orgChart' = Forest(employeeMap, rootNodes)
    /\ firstBuilt' = IF firstBuilt[selectedDepartment].built
                     THEN firstBuilt
                     ELSE [firstBuilt EXCEPT ![selectedDepartment] =
                              [built |-> TRUE, forest |-> orgChart']]
    /\ pc' = "idle"
    /\ Tick
    /\ expandedNodes' = {}
    /\ UNCHANGED <<authVars, appVars, pageVars, filteredEmployees, employeeMap, rootNodes,
                   childNodes>>

\* sortNodes(rootNodes) returns; setOrgChart(rootNodes)
SetOrgChart ==
    /\ pc = "sort"
    /\ Top.i > Len(FrameList(Top))
    /\ Len(stack) = 1
    /\ stack' = <<>>
    /\ orgChart' = Forest(employeeMap, rootNodes)
    /\ firstBuilt' = IF firstBuilt[selectedDepartment].built
                     THEN firstBuilt
                     ELSE [firstBuilt EXCEPT ![selectedDepartment] =
                              [built |-> TRUE, forest |-> orgChart']]
    /\ pc' = "idle"
    /\ Tick
    /\ UNCHANGED <<expandedNodes, authVars, appVars, pageVars, filteredEmployees, employeeMap, rootNodes, childNodes>>

Next ==
    \/ FetchEmployees
    \/ FetchEmployeesFails
    \/ SelectDepartment
    \/ BuildOrgChart
    \/ SortSkip
    \/ SortRecurse
    \/ SortReturn
    \/ SetOrgChart

Spec == Init /\ [][Next]_vars

\* One step of a run of buildOrgChart.
BuildStep == BuildOrgChart \/ SortSkip \/ SortRecurse \/ SortReturn \/ SetOrgChart

-----------------------------------------------------------------------------
(* Vocabulary of the properties *)

\* A build has completed for the current snapshot and department.
Built == pc = "idle" /\ employees # <<>>

InScope(emp) == selectedDepartment = All \/ emp.department = selectedDepartment

ScopeRecords == {employees[i] : i \in {j \in 1..Len(employees) : InScope(employees[j])}}

ScopeIds == {emp.id : emp \in ScopeRecords}

RECURSIVE Concat(_)
Concat(seqs) == IF seqs = <<>> THEN <<>> ELSE Concat(Front(seqs)) \o Last(seqs)

\* The ids of a forest in depth-first order, roots and nested children.
RECURSIVE ForestIds(_)
ForestIds(forest) ==
    Concat([k \in 1..Len(forest) |->
               <<forest[k].emp.id>> \o ForestIds(forest[k].children)])

Occurrences(x, s) == Cardinality({i \in 1..Len(s) : s[i] = x})

RootIds(forest) == {forest[k].emp.id : k \in 1..Len(forest)}

\* Every sibling sequence of a forest, as the sequence of its records.
RECURSIVE Levels(_)
Levels(forest) ==
    {[k \in 1..Len(forest) |-> forest[k].emp]}
    \cup UNION {Levels(forest[k].children) : k \in 1..Len(forest)}

\* Every node of a forest, at any depth.
RECURSIVE ForestNodes(_)
ForestNodes(forest) ==
    Range(forest) \cup UNION {ForestNodes(forest[k].children) : k \in 1..Len(forest)}

\* The manager of a record within the filtered list, or Undefined.
ManagerIn(emp) ==
    IF ~Unset(emp.managerId) /\ emp.managerId \in ScopeIds
    THEN emp.managerId ELSE Undefined

RecordOf(id) == CHOOSE emp \in ScopeRecords : emp.id = id

\* The k-th manager up the chain of id, or Undefined where the chain ends.
RECURSIVE Up(_, _)
Up(id, k) ==
    IF id = Undefined \/ k = 0 THEN id ELSE Up(ManagerIn(RecordOf(id)), k - 1)

ReportsInto(x, a) == \E k \in 0..Len(employees) : Up(x, k) = a

SelfManaged(emp) == emp.managerId = emp.id

OnIndirectCycle(emp) ==
    /\ ~SelfManaged(emp)
    /\ \E k \in 2..Len(employees) : Up(emp.id, k) = emp.id

\* Position of an id in the snapshot.
PositionOf(id) == CHOOSE i \in 1..Len(employees) : employees[i].id = id

-----------------------------------------------------------------------------
(* C1: every employee id of the filtered list appears exactly once in the  *)
(* forest produced by buildOrgChart, roots and nested children counted.    *)
C1_EachIdExactlyOnce ==
    Built => \A id \in ScopeIds : Occurrences(id, ForestIds(orgChart)) = 1

(* C3: a record whose managerId equals its own id is a root of the forest  *)
(* and is not among its own children.                                      *)
C3_SelfManagedIsRoot ==
    Built => \A emp \in ScopeRecords :
                SelfManaged(emp) =>
                    /\ emp.id \in RootIds(orgChart)
                    /\ emp.id \notin Range(employeeMap[emp.id].children)

(* C4: the records of an indirect manager cycle are roots of the forest,   *)
(* and they and every record reporting into them appear in the forest.     *)
C4_CycleMembersAreRoots ==
    Built => \A a \in ScopeRecords :
                OnIndirectCycle(a) =>
                    /\ a.id \in RootIds(orgChart)
                    /\ \A x \in ScopeIds :
                          ReportsInto(x, a.id) => x \in Range(ForestIds(orgChart))

-----------------------------------------------------------------------------
(* Heap reachability, for the termination argument *)

ChildIds(map, S) == UNION {Range(map[id].children) : id \in S \cap DOMAIN map}

RECURSIVE Closure(_, _, _)
Closure(map, S, n) ==
    IF n = 0 THEN S ELSE Closure(map, S \cup ChildIds(map, S), n - 1)

\* The nodes reachable from a set of nodes by one or more child edges.
Descendants(map, S) == Closure(map, ChildIds(map, S), Cardinality(DOMAIN map))

\* The nodes reachable from rootNodes.
Reachable == Range(rootNodes) \cup Descendants(employeeMap, Range(rootNodes))

HasManagerCycle ==
    \E emp \in ScopeRecords : SelfManaged(emp) \/ OnIndirectCycle(emp)

Max(a, b) == IF a >= b THEN a ELSE b

\* No node reachable from the roots is its own descendant, no children array
\* is being iterated by two frames at once, and the recursion is never deeper
\* than the number of filtered records.
SortWellFounded ==
    pc \in {"sort", "idle"} =>
        /\ \A id \in Reachable : id \notin Descendants(employeeMap, {id})
        /\ \A i, j \in 1..Len(stack) : stack[i].list = stack[j].list => i = j
        /\ Len(stack) <= Max(1, Len(filteredEmployees))

\* While sortNodes runs, its next step can be taken: the recursion never
\* exhausts the call stack.
SortCanProceed == pc = "sort" => ENABLED BuildStep

\* Every node is visited by one forEach iteration, and every call returns.
StepsBounded == steps <= 2 * Len(filteredEmployees) + 1

(* C2: for every input, manager cycles included, buildOrgChart terminates  *)
(* (sortNodes can always take its next step and takes a bounded number of  *)
(* them) and the forest reachable from the returned roots is acyclic and   *)
(* of finite depth.                                                        *)
C2_BuildTerminates == SortWellFounded /\ SortCanProceed /\ StepsBounded

C2_Witness ==
    /\ Built
    /\ HasManagerCycle
    /\ \E k \in 1..Len(orgChart) : orgChart[k].children # <<>>

(* C5: a filtered record is a root iff its managerId is unset or is not    *)
(* the id of a filtered record; otherwise it is in the children of exactly *)
(* the node whose id is its managerId, once, and of no other node.         *)
C5_RootIffNoManagerInScope ==
    Built =>
        \A emp \in ScopeRecords :
            LET root == emp.managerId \in {Undefined, ""} \/ emp.managerId \notin ScopeIds
            IN  /\ Occurrences(emp.id, rootNodes) = (IF root THEN 1 ELSE 0)
                /\ \A k \in DOMAIN employeeMap :
                      Occurrences(emp.id, employeeMap[k].children) =
                          (IF ~root /\ k = emp.managerId THEN 1 ELSE 0)

C5_Witness ==
    /\ Built
    /\ \E emp \in ScopeRecords : emp.managerId = Dangling
    /\ \E emp \in ScopeRecords : emp.managerId = ""
    /\ \E emp \in ScopeRecords : ManagerIn(emp) \notin {Undefined, emp.id}

\* The positions of the snapshot whose record has the department.
DeptPositions(dept) == {i \in 1..Len(employees) : employees[i].department = dept}

\* The k-th smallest element of a set of positions.
NthOf(S, k) == CHOOSE i \in S : Cardinality({j \in S : j < i}) = k - 1

(* C6: for a department the filter returns the records of that department  *)
(* in their original relative order; for 'all' it returns the snapshot.    *)
C6_FilterIsOrderedSelection ==
    Built =>
        IF selectedDepartment = All
        THEN filteredEmployees = employees
        ELSE LET S == DeptPositions(selectedDepartment)
             IN  /\ Len(filteredEmployees) = Cardinality(S)
                 /\ \A k \in 1..Len(filteredEmployees) :
                       filteredEmployees[k] = employees[NthOf(S, k)]

C6_Witness ==
    /\ Built
    /\ firstBuilt[All].built
    /\ selectedDepartment # All
    /\ Len(filteredEmployees) >= 2
    /\ Len(filteredEmployees) < Len(employees)
    /\ employees[1].department # selectedDepartment

(* C7: with a department D selected the forest holds only records of D,    *)
(* and every record of D whose manager is a record of another department   *)
(* is a root of the forest.                                                *)
C7_DepartmentForest ==
    (Built /\ selectedDepartment # All) =>
        /\ \A n \in ForestNodes(orgChart) : n.emp.department = selectedDepartment
        /\ \A emp \in ScopeRecords :
              (\E i \in 1..Len(employees) :
                   /\ employees[i].id = emp.managerId
                   /\ employees[i].department # selectedDepartment)
              => emp.id \in RootIds(orgChart)

C7_Witness ==
    /\ Built
    /\ selectedDepartment # All
    /\ \E emp \in ScopeRecords :
          /\ emp.id \in RootIds(orgChart)
          /\ \E i \in 1..Len(employees) :
                /\ employees[i].id = emp.managerId
                /\ employees[i].department # selectedDepartment

(* C8: at every level of the forest an admin precedes every manager and    *)
(* employee sibling, and a manager precedes every employee sibling.        *)
C8_RolePriorityAtEveryLevel ==
    Built =>
        \A L \in Levels(orgChart) :
            \A i, j \in 1..Len(L) :
                (\/ L[i].role = "admin" /\ L[j].role \in {"manager", "employee"}
                 \/ L[i].role = "manager" /\ L[j].role = "employee")
                => i < j

\* A nested level whose siblings arrived in the opposite order.
C8_Witness ==
    /\ Built
    /\ \E n \in ForestNodes(orgChart) :
          /\ Len(n.children) = 2
          /\ n.children[1].emp.role = "admin"
          /\ n.children[2].emp.role = "employee"
          /\ PositionOf(n.children[2].emp.id) < PositionOf(n.children[1].emp.id)

\* The names of the model in ascending order of the default collation.
NamesAscending == << <<"a", "b">>, <<"b">>, <<"B">> >>

NameRank(name) == CHOOSE k \in 1..Len(NamesAscending) : NamesAscending[k] = name

(* C9: two siblings, or two roots, with the same role are ordered by name  *)
(* ascending.                                                              *)
C9_SameRoleByName ==
    Built =>
        \A L \in Levels(orgChart) :
            \A i, j \in 1..Len(L) :
                (i < j /\ L[i].role = L[j].role)
                => NameRank(L[i].name) <= NameRank(L[j].name)

C9_Witness ==
    /\ Built
    /\ \E L \in Levels(orgChart) :
          /\ Len(L) = 3
          /\ L[1].role = L[3].role
          /\ L[1].name = <<"a", "b">> /\ L[2].name = <<"b">> /\ L[3].name = <<"B">>
          /\ PositionOf(L[3].id) < PositionOf(L[2].id)
          /\ PositionOf(L[2].id) < PositionOf(L[1].id)

(* C10: a build from the same employee list and the same selected          *)
(* department produces the same forest as the first such build, roots and  *)
(* every children sequence in the same order.                              *)
C10_RebuildIsIdentical ==
    (pc = "idle" /\ firstBuilt[selectedDepartment].built)
    => orgChart = firstBuilt[selectedDepartment].forest

\* The first build is the one for 'all': once another department has been
\* built, a forest displayed for 'all' comes from a repeated build.
C10_Witness ==
    /\ Built
    /\ selectedDepartment = All
    /\ \E d \in Depts : firstBuilt[d].built
    /\ \E k \in 1..Len(orgChart) : Len(orgChart[k].children) >= 2

-----------------------------------------------------------------------------
(* buildOrgChart as a function of its input: the employee list is drawn    *)
(* from lists whose ids may repeat, which the collection snapshot of       *)
(* fetchEmployees (one record per document id) never delivers.             *)

BuilderIds == {"e1", "e2"}

BuilderNames == {<<"a", "b">>, <<"b">>}

BuilderRecords ==
    [id : BuilderIds, name : BuilderNames, role : {"employee"},
     department : {"Eng"}, managerId : {""} \cup BuilderIds]

BuilderInputs == UNION {[1..n -> BuilderRecords] : n \in 1..MaxBuilderInput}

BuilderInit ==
    /\ employees \in BuilderInputs
    /\ departments = UniqueDepts(employees)
    /\ loading = FALSE
    /\ selectedDepartment = All
    /\ orgChart = <<>>
    /\ pc = "build"
    /\ filteredEmployees = <<>>
    /\ employeeMap = <<>>
    /\ rootNodes = <<>>
    /\ childNodes = {}
    /\ stack = <<>>
    /\ firstBuilt = [d \in {All} \cup Depts |-> NotBuilt]
    /\ steps = 0
    /\ expandedNodes = {}
    /\ AuthSignedIn("u1")
    /\ AppInit

\* sortNodes recursing without end (a children array that leads back to
\* its own node): the engine throws RangeError and the effect is abandoned
\* before setOrgChart.
StackOverflow ==
    /\ pc = "sort"
    /\ Top.i <= Len(FrameList(Top))
    /\ Len(stack) = MaxCallDepth
    /\ employeeMap[FrameList(Top)[Top.i]].children # <<>>
    /\ stack' = <<>>
    /\ pc' = "crashed"
    /\ Tick
    /\ UNCHANGED <<expandedNodes, authVars, appVars, pageVars, orgChart, filteredEmployees,
                   employeeMap, rootNodes, childNodes, histVars>>

BuilderNext ==
    \/ BuildOrgChart
    \/ SortSkip
    \/ SortRecurse
    \/ SortReturn
    \/ SetOrgChart
    \/ StackOverflow

BuilderSpec == BuilderInit /\ [][BuilderNext]_vars

HasDuplicateIds(list) ==
    \E i, j \in 1..Len(list) : i < j /\ list[i].id = list[j].id

-----------------------------------------------------------------------------
\* Every node object of the running or latest build carries the attribute
\* values of the record it was made from, and its children array holds
\* exactly the records of this build that name it as manager, once each.
NodesAreFresh ==
    \A id \in DOMAIN employeeMap :
        LET node == employeeMap[id]
            reports == {i \in 1..Len(filteredEmployees) :
                           /\ ~Unset(filteredEmployees[i].managerId)
                           /\ filteredEmployees[i].managerId = id}
        IN  /\ node.emp \in Range(filteredEmployees)
            /\ node.emp.id = id
            /\ Len(node.children) = Cardinality(reports)
            /\ Range(node.children) = {filteredEmployees[i].id : i \in reports}

(* C12: no step of buildOrgChart changes the employee snapshot (same       *)
(* records, same order, same attribute values), and the nodes it makes are *)
(* new objects with children arrays of their own.                          *)
C12_BuildLeavesSnapshotUnchanged ==
    [][BuildStep => (employees' = employees /\ NodesAreFresh')]_vars

\* A completed build for 'all', where filteredEmployees is the employees
\* array itself, whose sort moved a later record in front of an earlier one.
C12_Witness ==
    /\ Built
    /\ selectedDepartment = All
    /\ Len(orgChart) >= 2
    /\ PositionOf(orgChart[1].emp.id) > PositionOf(orgChart[2].emp.id)

-----------------------------------------------------------------------------
(* The tree view: renderOrgNode and the expansion state.                   *)

RECURSIVE RenderOrgNode(_, _, _)
RECURSIVE RenderNodes(_, _, _)

\* Variant: the children are rendered whether or not the node is expanded.
RenderOrgNodeAlwaysOpen(node, level, expanded) ==
    LET hasChildren == Len(node.children) > 0
        isExpanded == node.emp.id \in expanded
    IN  <<[id |-> node.emp.id, level |-> level, hasChildren |-> hasChildren,
           isExpanded |-> isExpanded]>>
        \o (IF hasChildren THEN RenderNodes(node.children, level + 1, expanded)
            ELSE <<>>)

\* renderOrgNode(node, level): the card of the node, then, if the node has
\* children and is expanded, its children at level + 1.  The value is the
\* sequence of cards in document order.
RenderOrgNode(node, level, expanded) ==
    LET hasChildren == Len(node.children) > 0
        isExpanded == node.emp.id \in expanded
    IN  <<[id |-> node.emp.id, level |-> level, hasChildren |-> hasChildren,
           isExpanded |-> isExpanded]>>
        \o (IF hasChildren /\ isExpanded
            THEN RenderNodes(node.children, level + 1, expanded)
            ELSE <<>>)

\* nodes.map(node => renderOrgNode(node, level))
RenderNodes(nodes, level, expanded) ==
    IF nodes = <<>> THEN <<>>
    ELSE RenderNodes(Front(nodes), level, expanded)
         \o RenderOrgNode(Last(nodes), level, expanded)

\* The cards of the chart: none while the spinner is shown, none under
\* "No employees found".
RenderedCards == IF loading THEN <<>> ELSE RenderNodes(orgChart, 0, expandedNodes)

\* Variant: the branch that removes an expanded id is missing.
ToggledSetAddOnly(expanded, nodeId) == expanded \cup {nodeId}

\* const newExpanded = new Set(expandedNodes); delete if present, else add
ToggledSet(expanded, nodeId) ==
    IF nodeId \in expanded THEN expanded \ {nodeId} ELSE expanded \cup {nodeId}

orgVars == <<employees, orgChart, loading, selectedDepartment, departments, pc,
             buildVars, histVars, steps>>

\* The page responds to input once the effects of the last change have run.
Interactive == pc = "idle" /\ ~loading

\* toggleNode(nodeId), from the button of a rendered card that has children
ToggleNode(nodeId) ==
    /\ Interactive
    /\ \E k \in 1..Len(RenderedCards) :
          RenderedCards[k].id = nodeId /\ RenderedCards[k].hasChildren
    /\ expandedNodes' = ToggledSet(expandedNodes, nodeId)
    /\ UNCHANGED <<orgVars, authVars, appVars>>

\* Variant: only the records of the filtered list are expanded.
ExpandAllFiltered ==
    /\ Interactive
    /\ expandedNodes' = {emp.id : emp \in Range(FilterEmployees(employees, selectedDepartment))}
    /\ UNCHANGED <<orgVars, authVars, appVars>>

\* Expand All: setExpandedNodes(new Set(employees.map(emp => emp.id)))
ExpandAll ==
    /\ Interactive
    /\ expandedNodes' = {emp.id : emp \in Range(employees)}
    /\ UNCHANGED <<orgVars, authVars, appVars>>

\* Collapse All: setExpandedNodes(new Set())
CollapseAll ==
    /\ Interactive
    /\ expandedNodes' = {}
    /\ UNCHANGED <<orgVars, authVars, appVars>>

\* Snapshots for the tree view: record i has the role of its position, so
\* that a later sibling can sort in front of an earlier one.
PageRoles == <<"employee", "manager", "admin">>

PageProfiles == [department : Depts, managerId : {"", IdOf(1), IdOf(2)}]

PageSnapshot(n, p) ==
    [i \in 1..n |->
        Employee(i, [name |-> <<"a", "b">>, role |-> PageRoles[((i - 1) % 3) + 1],
                     department |-> p[i].department, managerId |-> p[i].managerId])]

IsPageSnapshot(snapshot, n) ==
    \E p \in [1..n -> PageProfiles] : snapshot = PageSnapshot(n, p)

\* fetchEmployees, try branch, over the snapshots of the tree view
FetchPageEmployees ==
    /\ pc = "mount"
    /\ \E n \in 0..MaxPageEmployees :
          /\ IsPageSnapshot(employees', n)
          /\ departments' = UniqueDepts(employees')
          /\ pc' = EffectTarget(employees')
    /\ loading' = FALSE
    /\ UNCHANGED <<expandedNodes, authVars, appVars, orgChart, selectedDepartment, buildVars,
                   histVars, steps>>

PageNext ==
    \/ FetchPageEmployees
    \/ FetchEmployeesFails
    \/ SelectDepartment
    \/ BuildOrgChart
    \/ SortSkip
    \/ SortRecurse
    \/ SortReturn
    \/ SetOrgChart
    \/ \E nodeId \in Range(IdSeq) : ToggleNode(nodeId)
    \/ ExpandAll
    \/ CollapseAll

PageSpec == Init /\ [][PageNext]_vars

-----------------------------------------------------------------------------
\* A change that causes a rebuild, or a step of the rebuild.
RebuildStep == FetchPageEmployees \/ SelectDepartment \/ BuildStep

(* C13: a rebuild of the forest, from the change of the snapshot or of the *)
(* selected department to setOrgChart, leaves the expansion set as it was: *)
(* no id leaves the set and no id enters it.                               *)
C13_RebuildKeepsExpansion ==
    [][RebuildStep => expandedNodes' = expandedNodes]_vars

\* A rebuild for a department is about to call setOrgChart while some, but
\* not all, ids of the snapshot are expanded.
C13_Witness ==
    /\ pc = "sort"
    /\ Len(stack) = 1
    /\ Top.i > Len(FrameList(Top))
    /\ selectedDepartment # All
    /\ expandedNodes # {}
    /\ expandedNodes # {emp.id : emp \in Range(employees)}

AllIds == Range(IdSeq)

(* C14: toggleNode(id) flips the membership of id in the expansion set and *)
(* changes the membership of no other id; a second toggle of the same id   *)
(* gives back the set held before the first.                               *)
C14_ToggleFlipsOnlyItsId ==
    [][\A nodeId \in AllIds :
          ToggleNode(nodeId) =>
              /\ (nodeId \in expandedNodes') # (nodeId \in expandedNodes)
              /\ \A other \in AllIds \ {nodeId} :
                    (other \in expandedNodes') = (other \in expandedNodes)
              /\ ToggledSet(expandedNodes', nodeId) = expandedNodes]_vars

\* In the chain e1 > e2 > e3 only e2 is expanded.  Expand All would have
\* added e3, which has no toggle button; so e1 was expanded by a toggle, e2
\* by a toggle of its card under e1, and e1 collapsed by a second toggle.
C14_Witness ==
    /\ Built
    /\ Len(employees) = 3
    /\ Unset(employees[1].managerId)
    /\ employees[2].managerId = IdOf(1)
    /\ employees[3].managerId = IdOf(2)
    /\ expandedNodes = {IdOf(2)}

\* The cards of the chart with every node open.
AllCards == RenderNodes(orgChart, 0, AllIds)

(* C15: Expand All replaces the expansion set by exactly the ids of the    *)
(* employee snapshot, so that under any department filter every node of    *)
(* the forest is rendered; Collapse All replaces it by the empty set, so   *)
(* that only the roots are rendered; neither depends on the set before.    *)
C15_ExpandAllCollapseAll ==
    [][/\ ExpandAll =>
           /\ expandedNodes' = {employees[i].id : i \in 1..Len(employees)}
           /\ RenderedCards' = AllCards'
           /\ Len(RenderedCards') = Cardinality(ForestNodes(orgChart))
       /\ CollapseAll =>
           /\ expandedNodes' = {}
           /\ Len(RenderedCards') = Len(orgChart)]_vars

\* Every id of the snapshot is expanded under a department filter that
\* leaves some records out; a record that manages nobody has no toggle
\* button, so only Expand All can have put its id into the set.
C15_Witness ==
    /\ Built
    /\ selectedDepartment # All
    /\ Len(FilterEmployees(employees, selectedDepartment)) < Len(employees)
    /\ expandedNodes = {emp.id : emp \in Range(employees)}
    /\ \E emp \in Range(employees) :
          \A other \in Range(employees) : other.managerId # emp.id
    /\ \E k \in 1..Len(orgChart) : orgChart[k].children # <<>>

-----------------------------------------------------------------------------
\* Every node of a forest with the ids of its ancestors, outermost first.
RECURSIVE NodePaths(_, _)
NodePaths(forest, ancestors) ==
    UNION {{[id |-> forest[k].emp.id, ancestors |-> ancestors]}
           \cup NodePaths(forest[k].children, Append(ancestors, forest[k].emp.id)) :
           k \in 1..Len(forest)}

\* The nodes all of whose ancestors are expanded.
VisiblePaths ==
    {p \in NodePaths(orgChart, <<>>) : Range(p.ancestors) \subseteq expandedNodes}

(* C16: the cards appear in the depth-first order of the forest as built,  *)
(* each at the level of its depth, and the children of a node appear only  *)
(* if the node is expanded: a node has a card, exactly one, if and only if *)
(* all its ancestors are expanded.                                         *)
C16_RenderedIffAncestorsExpanded ==
    ~loading =>
        LET visibleIds == {p.id : p \in VisiblePaths}
            IsVisible(id) == id \in visibleIds
        IN  /\ Len(RenderedCards) = Cardinality(VisiblePaths)
            /\ [k \in 1..Len(RenderedCards) |-> RenderedCards[k].id]
                   = SelectSeq(ForestIds(orgChart), IsVisible)
            /\ \A k \in 1..Len(RenderedCards) :
                  \E p \in VisiblePaths :
                      /\ p.id = RenderedCards[k].id
                      /\ RenderedCards[k].level = Len(p.ancestors)

\* A chain of three with both managers expanded: a card at level 2.
C16_Witness ==
    /\ Built
    /\ Len(RenderedCards) = 3
    /\ RenderedCards[3].level = 2
    /\ RenderedCards[1].isExpanded /\ RenderedCards[2].isExpanded

-----------------------------------------------------------------------------
(* The summary cards *)

CountRole(list, role) == Cardinality({i \in 1..Len(list) : list[i].role = role})

StatsOf(list) ==
    [totalEmployees |-> Len(list),
     admins |-> CountRole(list, "admin"),
     managers |-> CountRole(list, "manager"),
     employees |-> CountRole(list, "employee"),
     departments |-> Len(departments)]

\* Variant: the counts are taken from the filtered list.
statsOfFiltered == StatsOf(FilterEmployees(employees, selectedDepartment))

\* const stats = { totalEmployees: employees.length, ... }
stats == StatsOf(employees)

(* C17: the summary counts (total, admins, managers, employees, distinct   *)
(* departments) are those of the unfiltered snapshot: a change of the      *)
(* selected department changes none of them.                               *)
C17_StatsIgnoreDepartment ==
    [][selectedDepartment' # selectedDepartment =>
          /\ stats' = stats
          /\ stats'.totalEmployees = Len(employees)
          /\ stats'.admins + stats'.managers + stats'.employees = Len(employees)
          /\ stats'.departments = Cardinality({emp.department : emp \in Range(employees)})]_vars

\* A department is selected that leaves out a record of the snapshot, and
\* the snapshot has two departments.
C17_Witness ==
    /\ Built
    /\ selectedDepartment # All
    /\ Len(FilterEmployees(employees, selectedDepartment)) < Len(employees)
    /\ stats.totalEmployees = 3
    /\ stats.departments = 2

-----------------------------------------------------------------------------
(* The worked example of the hierarchy: four records, fetched in any order *)

Alice == [id |-> IdOf(1), name |-> <<"A", "l", "i", "c", "e">>, role |-> "admin",
          department |-> "Eng", managerId |-> Undefined]

Bob == [id |-> IdOf(2), name |-> <<"B", "o", "b">>, role |-> "manager",
        department |-> "Eng", managerId |-> Alice.id]

Carol == [id |-> IdOf(3), name |-> <<"C", "a", "r", "o", "l">>, role |-> "employee",
          department |-> "Eng", managerId |-> Bob.id]

Dave == [id |-> IdOf(4), name |-> <<"D", "a", "v", "e">>, role |-> "employee",
         department |-> "Eng", managerId |-> Alice.id]

ScenarioRecords == <<Alice, Bob, Carol, Dave>>

\* fetchEmployees, try branch, returning the four records in some order
FetchScenario ==
    /\ pc = "mount"
    /\ \E f \in Permutations(1..Len(ScenarioRecords)) :
          employees' = [k \in 1..Len(ScenarioRecords) |-> ScenarioRecords[f[k]]]
    /\ departments' = UniqueDepts(employees')
    /\ pc' = EffectTarget(employees')
    /\ loading' = FALSE
    /\ UNCHANGED <<expandedNodes, authVars, appVars, orgChart, selectedDepartment, buildVars,
                   histVars, steps>>

ScenarioNext ==
    \/ FetchScenario
    \/ BuildOrgChart
    \/ SortSkip
    \/ SortRecurse
    \/ SortReturn
    \/ SetOrgChart

ScenarioSpec == Init /\ [][ScenarioNext]_vars

Leaf(emp) == [emp |-> emp, children |-> <<>>]

(* C18: for Alice (admin, no manager), Bob (manager under Alice), Carol    *)
(* (employee under Bob) and Dave (employee under Alice), filter 'all', in  *)
(* any input order: roots = [Alice], Alice.children = [Bob, Dave],         *)
(* Bob.children = [Carol], Carol and Dave without children.                *)
C18_ScenarioForest ==
    (Built /\ selectedDepartment = All) =>
        orgChart = <<[emp |-> Alice,
                      children |-> <<[emp |-> Bob, children |-> <<Leaf(Carol)>>],
                                     Leaf(Dave)>>]>>

\* The build has completed for the order Carol, Dave, Bob, Alice: every
\* report precedes its manager and Dave precedes Bob.
C18_Witness ==
    /\ Built
    /\ employees = <<Carol, Dave, Bob, Alice>>
    /\ Len(orgChart) = 1

-----------------------------------------------------------------------------
(* The forest of a snapshot and a department, defined without the builder: *)
(* by who names whom, and by the place of each record among its siblings.  *)

\* a comes before b in a sorted sibling list: by the comparator, and for
\* records that compare equal by their order in the list (a stable sort).
Precedes(list, i, j) ==
    LET c == CompareNodes(list[i], list[j])
    IN  c < 0 \/ (c = 0 /\ i < j)

\* The records of list at the positions in S, in sorted order.
Ordered(list, S) ==
    [k \in 1..Cardinality(S) |->
        list[CHOOSE i \in S : Cardinality({j \in S : Precedes(list, j, i)}) = k - 1]]

ReportsOf(list, id) ==
    {i \in 1..Len(list) : ~Unset(list[i].managerId) /\ list[i].managerId = id}

RootsOf(list) ==
    {i \in 1..Len(list) :
        \/ Unset(list[i].managerId)
        \/ \A j \in 1..Len(list) : list[j].id # list[i].managerId}

RECURSIVE TreeOf(_, _)
TreeOf(list, emp) ==
    LET reports == Ordered(list, ReportsOf(list, emp.id))
    IN  [emp |-> emp,
         children |-> [k \in 1..Len(reports) |-> TreeOf(list, reports[k])]]

ForestOf(list) ==
    LET roots == Ordered(list, RootsOf(list))
    IN  [k \in 1..Len(roots) |-> TreeOf(list, roots[k])]

\* The forest of the current snapshot under the current department.
CurrentForest == ForestOf(FilterEmployees(employees, selectedDepartment))

\* The statement as written: in every state the displayed forest is the
\* one of the current snapshot and department.
C19_ForestAlwaysCurrent == orgChart = CurrentForest

(* C19: once the rebuild effect of a change of the snapshot or of the      *)
(* selected department has run, the displayed forest equals the forest of  *)
(* the current snapshot and department, the empty snapshot included; until *)
(* then the forest of the previous snapshot or department is displayed.    *)
C19_ForestCurrentAfterEffect ==
    /\ pc \in {"mount", "idle"} => orgChart = CurrentForest
    /\ pc \in {"build", "sort"} =>
          \/ orgChart = <<>>
          \/ \E d \in {All} \cup Range(departments) :
                firstBuilt[d].built /\ orgChart = firstBuilt[d].forest

\* The forest of a department is displayed after the forest of 'all' was,
\* and the two differ.
C19_Witness ==
    /\ Built
    /\ selectedDepartment # All
    /\ firstBuilt[All].built
    /\ orgChart # firstBuilt[All].forest
    /\ orgChart # <<>>

-----------------------------------------------------------------------------
(* The auth context (AuthContext.tsx) and ProtectedRoute.  Firebase Auth   *)
(* holds the signed-in account (authUser) and reports each change of it to *)
(* the onAuthStateChanged listener; the listener awaits createUserDocument *)
(* before it sets currentUser and clears loading.                          *)

AuthInit ==
    /\ authUser \in {None} \cup Users       \* a session may have been persisted
    /\ currentUser = NoUser
    /\ firebaseUser = None
    /\ authLoading = TRUE
    /\ authEvents = <<authUser>>            \* the first report of the listener
    /\ authCalls = <<>>
    /\ employees = <<>>
    /\ orgChart = <<>>
    /\ loading = TRUE
    /\ selectedDepartment = All
    /\ departments = <<>>
    /\ pc = "mount"
    /\ filteredEmployees = <<>>
    /\ employeeMap = <<>>
    /\ rootNodes = <<>>
    /\ childNodes = {}
    /\ stack = <<>>
    /\ firstBuilt = [d \in {All} \cup Depts |-> NotBuilt]
    /\ steps = 0
    /\ expandedNodes = {}
    /\ AppInit

\* What ProtectedRoute returns for a route with the given requiredRoles.
ProtectedRoute(requiredRoles) ==
    IF authLoading THEN "LoadingSpinner"
    ELSE IF currentUser = NoUser THEN "Navigate /login"
    ELSE IF requiredRoles # {} /\ currentUser.role \notin requiredRoles
    THEN "Navigate /unauthorized"
    ELSE "children"

\* requiredRoles of the protected routes of App: none for the layout route,
\* ['admin', 'manager'] for employees, reports and organization.
RouteRoles == {{}, {"admin", "manager"}}

AuthPending == Len(authEvents) + Len(authCalls)

\* Firebase Auth reports a change to the listener when the uid changes.
Reported(uid) == IF uid # authUser THEN Append(authEvents, uid) ELSE authEvents

\* additionalData of createUserDocument when the caller passes none
NoData == [role |-> None, displayName |-> None]

\* A call awaiting Firebase: the function, the account it is about, the
\* await it stands at, the additionalData it was given, the User it returns
\* when the await resolves, and the document it is about to write.
Call(op, uid, stage, data, user, document) ==
    [op |-> op, uid |-> uid, stage |-> stage, data |-> data, user |-> user,
     doc |-> document]

\* login from the public /login route, signInWithEmailAndPassword resolves
Login(uid) ==
    /\ accounts[uid] # None
    /\ AuthPending < MaxAuthPending
    /\ authLoading' = TRUE
    /\ authUser' = uid
    /\ authEvents' = Reported(uid)
    /\ UNCHANGED <<orgVars, expandedNodes, appVars, currentUser, firebaseUser, authCalls>>

\* login, signInWithEmailAndPassword rejects: the catch block shows a toast
\* and rethrows
LoginFails ==
    /\ authLoading' = TRUE
    /\ UNCHANGED <<orgVars, expandedNodes, appVars, authUser, currentUser, firebaseUser,
                   authEvents, authCalls>>

\* register from the public /register route, createUserWithEmailAndPassword
\* resolves: the account exists and is signed in, updateProfile is awaited
Register(role) ==
    /\ accounts[NewUser] = None
    /\ AuthPending + 2 <= MaxAuthPending
    /\ authLoading' = TRUE
    /\ accounts' = [accounts EXCEPT ![NewUser] = ""]
    /\ authUser' = NewUser
    /\ authEvents' = Reported(NewUser)
    /\ authCalls' = Append(authCalls,
                           Call("register", NewUser, "updateProfile",
                                [role |-> role, displayName |-> DisplayName[NewUser]],
                                NoUser, NoDoc))
    /\ UNCHANGED <<orgVars, expandedNodes, workVars, userDocs, registered, currentUser,
                   firebaseUser>>

\* register, createUserWithEmailAndPassword rejects (the email is in use,
\* the password is weak): the catch block
RegisterFails ==
    /\ authLoading' = TRUE
    /\ UNCHANGED <<orgVars, expandedNodes, appVars, authUser, currentUser, firebaseUser,
                   authEvents, authCalls>>

\* register, updateProfile resolves: createUserDocument starts
ProfileNamed(k) ==
    /\ k \in 1..Len(authCalls)
    /\ authCalls[k].stage = "updateProfile"
    /\ accounts' = [accounts EXCEPT ![authCalls[k].uid] = authCalls[k].data.displayName]
    /\ authCalls' = [authCalls EXCEPT ![k].stage = "getDoc"]
    /\ UNCHANGED <<orgVars, expandedNodes, workVars, userDocs, registered, authUser,
                   currentUser, firebaseUser, authLoading, authEvents>>

\* loginWithGoogle, signInWithPopup resolves: a first sign-in creates the
\* account, with the name of the Google profile
LoginWithGoogle(uid) ==
    /\ AuthPending + 2 <= MaxAuthPending
    /\ authLoading' = TRUE
    /\ accounts' = IF accounts[uid] = None
                   THEN [accounts EXCEPT ![uid] = DisplayName[uid]]
                   ELSE accounts
    /\ authUser' = uid
    /\ authEvents' = Reported(uid)
    /\ authCalls' = Append(authCalls, Call("google", uid, "getDoc", NoData, NoUser, NoDoc))
    /\ UNCHANGED <<orgVars, expandedNodes, workVars, userDocs, registered, currentUser,
                   firebaseUser>>

\* loginWithGoogle, signInWithPopup rejects (the popup is closed)
LoginWithGoogleFails ==
    /\ authLoading' = TRUE
    /\ UNCHANGED <<orgVars, expandedNodes, appVars, authUser, currentUser, firebaseUser,
                   authEvents, authCalls>>

\* logout from the layout, which is rendered inside ProtectedRoute; signOut
\* resolves.  (When signOut rejects, no state is set.)
Logout ==
    /\ ProtectedRoute({}) = "children"
    /\ AuthPending < MaxAuthPending
    /\ authUser' = None
    /\ authEvents' = Reported(None)
    /\ currentUser' = NoUser
    /\ firebaseUser' = None
    /\ UNCHANGED <<orgVars, expandedNodes, appVars, authLoading, authCalls>>

\* The listener is called with the next change: a sign-out is handled at
\* once, a sign-in starts createUserDocument(user).
AuthStateChanged ==
    /\ authEvents # <<>>
    /\ LET user == Head(authEvents)
       IN  /\ firebaseUser' = user
           /\ IF user = None
              THEN /\ currentUser' = NoUser
                   /\ authLoading' = FALSE
                   /\ UNCHANGED authCalls
              ELSE /\ authCalls' = Append(authCalls,
                                          Call("listener", user, "getDoc", NoData,
                                               NoUser, NoDoc))
                   /\ UNCHANGED <<currentUser, authLoading>>
    /\ authEvents' = Tail(authEvents)
    /\ UNCHANGED <<orgVars, expandedNodes, appVars, authUser>>

Without(s, k) == SubSeq(s, 1, k - 1) \o SubSeq(s, k + 1, Len(s))

\* userData of createUserDocument for an account without a document
NewDocument(uid, data) ==
    [role |-> IF data.role # None THEN data.role ELSE "employee",
     displayName |-> IF accounts[uid] \notin {None, ""} THEN accounts[uid]
                     ELSE IF data.displayName # None THEN data.displayName
                     ELSE ""]

\* hasUpdates of createUserDocument
HasUpdates(data) == data.role # None \/ data.displayName # None

\* the document after updateDoc(userRef, updates)
UpdatedDocument(existing, data) ==
    [role |-> IF data.role # None THEN data.role ELSE existing.role,
     displayName |-> IF data.displayName # None THEN data.displayName
                     ELSE existing.displayName]

\* The User built from a document
UserOf(uid, document) == [uid |-> uid, role |-> document.role]

\* createUserDocument resolves with userData in call k, and its caller goes
\* on in the same turn: the listener sets currentUser and clears loading in
\* its finally block, register sets currentUser, loginWithGoogle sets nothing
Returns(k, userData) ==
    /\ authCalls' = Without(authCalls, k)
    /\ CASE authCalls[k].op = "listener" ->
                /\ currentUser' = userData
                /\ authLoading' = FALSE
         [] authCalls[k].op = "register" ->
                /\ currentUser' = userData
                /\ UNCHANGED authLoading
         [] authCalls[k].op = "google" ->
                UNCHANGED <<currentUser, authLoading>>
    /\ registered' = IF authCalls[k].op = "register" THEN authCalls[k].data.role
                     ELSE registered

\* createUserDocument, getDoc resolves: a missing document is about to be
\* created, an existing one is merged with the caller's updates or returned
GetDocResolves(k) ==
    /\ k \in 1..Len(authCalls)
    /\ authCalls[k].stage = "getDoc"
    /\ LET call == authCalls[k]
           userDoc == userDocs[call.uid]
       IN  IF userDoc = NoDoc
           THEN /\ authCalls' =
                        [authCalls EXCEPT ![k] =
                            Call(call.op, call.uid, "setDoc", call.data,
                                 UserOf(call.uid, NewDocument(call.uid, call.data)),
                                 NewDocument(call.uid, call.data))]
                /\ UNCHANGED <<currentUser, authLoading, registered>>
           ELSE IF HasUpdates(call.data)
           THEN /\ authCalls' =
                        [authCalls EXCEPT ![k] =
                            Call(call.op, call.uid, "updateDoc", call.data,
                                 UserOf(call.uid, userDoc),
                                 UpdatedDocument(userDoc, call.data))]
                /\ UNCHANGED <<currentUser, authLoading, registered>>
           ELSE Returns(k, UserOf(call.uid, userDoc))
    /\ UNCHANGED <<orgVars, expandedNodes, workVars, accounts, userDocs, authUser,
                   firebaseUser, authEvents>>

\* createUserDocument, setDoc resolves: the document is written whole
SetDocResolves(k) ==
    /\ k \in 1..Len(authCalls)
    /\ authCalls[k].stage = "setDoc"
    /\ userDocs' = [userDocs EXCEPT ![authCalls[k].uid] = authCalls[k].doc]
    /\ Returns(k, authCalls[k].user)
    /\ UNCHANGED <<orgVars, expandedNodes, workVars, accounts, authUser, firebaseUser,
                   authEvents>>

\* createUserDocument, updateDoc resolves: the updates are written over the
\* stored document and { ...existingData, ...updates } is returned
UpdateDocResolves(k) ==
    /\ k \in 1..Len(authCalls)
    /\ authCalls[k].op # "updateUserProfile"
    /\ authCalls[k].stage = "updateDoc"
    /\ userDocs' = [userDocs EXCEPT ![authCalls[k].uid] =
                        UpdatedDocument(@, authCalls[k].data)]
    /\ Returns(k, UserOf(authCalls[k].uid, authCalls[k].doc))
    /\ UNCHANGED <<orgVars, expandedNodes, workVars, accounts, authUser, firebaseUser,
                   authEvents>>

\* createUserDocument, updateDoc rejects: the error is logged and
\* existingData is returned
UpdateDocRejects(k) ==
    /\ k \in 1..Len(authCalls)
    /\ authCalls[k].op # "updateUserProfile"
    /\ authCalls[k].stage = "updateDoc"
    /\ Returns(k, authCalls[k].user)
    /\ UNCHANGED <<orgVars, expandedNodes, workVars, accounts, userDocs, authUser,
                   firebaseUser, authEvents>>

\* updateProfile, getDoc or setDoc rejects: the listener's catch block sets
\* currentUser to null and its finally block clears loading; register and
\* loginWithGoogle show a toast and rethrow
Throws(k) ==
    /\ k \in 1..Len(authCalls)
    /\ authCalls[k].stage \in {"updateProfile", "getDoc", "setDoc"}
    /\ authCalls' = Without(authCalls, k)
    /\ IF authCalls[k].op = "listener"
       THEN /\ currentUser' = NoUser
            /\ authLoading' = FALSE
       ELSE UNCHANGED <<currentUser, authLoading>>
    /\ UNCHANGED <<orgVars, expandedNodes, appVars, authUser, firebaseUser, authEvents>>

\* updateUserProfile from the profile page, up to await updateDoc: the
\* function was created by the render that showed the page and keeps that
\* render's currentUser.  The updates of the profile form hold no role.
UpdateUserProfile ==
    /\ ProtectedRoute({}) = "children"
    /\ AuthPending < MaxAuthPending
    /\ authCalls' = Append(authCalls,
                           Call("updateUserProfile", currentUser.uid, "updateDoc",
                                NoData, currentUser, NoDoc))
    /\ UNCHANGED <<orgVars, expandedNodes, appVars, authUser, currentUser, firebaseUser,
                   authLoading, authEvents>>

\* updateDoc resolves: setCurrentUser({ ...currentUser, ...updateData })
ProfileUpdated(k) ==
    /\ k \in 1..Len(authCalls)
    /\ authCalls[k].op = "updateUserProfile"
    /\ currentUser' = authCalls[k].user
    /\ authCalls' = Without(authCalls, k)
    /\ UNCHANGED <<orgVars, expandedNodes, appVars, authUser, firebaseUser, authLoading,
                   authEvents>>

\* updateDoc rejects: a toast, no state is set
ProfileUpdateFails(k) ==
    /\ k \in 1..Len(authCalls)
    /\ authCalls[k].op = "updateUserProfile"
    /\ authCalls' = Without(authCalls, k)
    /\ UNCHANGED <<orgVars, expandedNodes, appVars, authUser, currentUser, firebaseUser,
                   authLoading, authEvents>>

AuthNext ==
    \/ \E uid \in AllUsers : Login(uid)
    \/ LoginFails
    \/ \E role \in Roles : Register(role)
    \/ RegisterFails
    \/ \E k \in 1..MaxAuthPending : ProfileNamed(k)
    \/ \E uid \in AllUsers : LoginWithGoogle(uid)
    \/ LoginWithGoogleFails
    \/ Logout
    \/ AuthStateChanged
    \/ \E k \in 1..MaxAuthPending : GetDocResolves(k)
    \/ \E k \in 1..MaxAuthPending : SetDocResolves(k)
    \/ \E k \in 1..MaxAuthPending : UpdateDocResolves(k)
    \/ \E k \in 1..MaxAuthPending : UpdateDocRejects(k)
    \/ \E k \in 1..MaxAuthPending : Throws(k)
    \/ UpdateUserProfile
    \/ \E k \in 1..MaxAuthPending : ProfileUpdated(k)
    \/ \E k \in 1..MaxAuthPending : ProfileUpdateFails(k)

AuthSpec == AuthInit /\ [][AuthNext]_vars

\* No account is signed in and nothing is in flight: every change has been
\* reported to the listener and every listener call has returned.
SignedOutAndSettled ==
    /\ authUser = None
    /\ authEvents = <<>>
    /\ authCalls = <<>>

\* The part of the statement about the children alone.
ChildrenNeverShownSignedOut ==
    SignedOutAndSettled =>
        \A requiredRoles \in RouteRoles : ProtectedRoute(requiredRoles) # "children"

(* C20: with no signed-in user (before login, after a failed login, after  *)
(* logout) every protected route renders the redirect to /login, and never *)
(* its children.  Stated for the states in which no change of the auth     *)
(* state is still being processed.                                         *)
C20_SignedOutIsRedirected ==
    SignedOutAndSettled =>
        \A requiredRoles \in RouteRoles :
            ProtectedRoute(requiredRoles) = "Navigate /login"

-----------------------------------------------------------------------------
(* Role-guarded routes and the sidebar (App.tsx, Layout.tsx) *)

\* requiredRoles of each route nested in the layout route of App
RequiredRoles ==
    [dashboard |-> {}, profile |-> {}, employees |-> {"admin", "manager"},
     tasks |-> {}, attendance |-> {}, leave |-> {},
     reports |-> {"admin", "manager"}, insights |-> {},
     organization |-> {"admin", "manager"}]

RoleGuardedRoutes == {"employees", "reports", "organization"}

\* What a nested route shows: the layout route's ProtectedRoute decides
\* first, the route's own ProtectedRoute, if it has one, decides next.
RouteView(route) ==
    IF ProtectedRoute({}) # "children" THEN ProtectedRoute({})
    ELSE IF RequiredRoles[route] = {} THEN "children"
    ELSE ProtectedRoute(RequiredRoles[route])

\* roles of each item of the sidebar, by the route it links to
navigation ==
    [dashboard |-> Roles, employees |-> {"admin", "manager"}, tasks |-> Roles,
     attendance |-> Roles, leave |-> Roles, reports |-> {"admin", "manager"},
     insights |-> Roles, organization |-> {"admin", "manager"}]

\* navigation.filter(item => item.roles.includes(currentUser?.role || 'employee'))
filteredNavigation ==
    {item \in DOMAIN navigation :
        (IF currentUser = NoUser THEN "employee" ELSE currentUser.role)
            \in navigation[item]}

\* The sidebar is part of the layout, which the layout route renders.
Sidebar == IF ProtectedRoute({}) = "children" THEN filteredNavigation ELSE {}

\* The role stored for the account that is signed in.
SignedInRole == IF authUser = None THEN None ELSE userDocs[authUser].role

\* Every change of the auth state has been reported to the listener and
\* every call of the auth context has returned.
AuthSettled == authEvents = <<>> /\ authCalls = <<>>

(* C21: employees, reports and organization render their page only for a   *)
(* signed-in user whose role is admin or manager; while the layout is      *)
(* shown to a signed-in user with role employee, each of the three routes  *)
(* redirects to /unauthorized and the sidebar lists none of them.  Stated  *)
(* for the states in which no change of the auth state is still being      *)
(* processed.                                                              *)
C21_RoleGuardedRoutes ==
    AuthSettled =>
    \A route \in RoleGuardedRoutes :
        /\ RouteView(route) = "children" =>
                authUser # None /\ SignedInRole \in {"admin", "manager"}
        /\ (SignedInRole = "employee" /\ ProtectedRoute({}) = "children") =>
                /\ RouteView(route) = "Navigate /unauthorized"
                /\ route \notin Sidebar

-----------------------------------------------------------------------------
(* Registration against the listener (AuthContext.tsx) *)

(* C26: after register has completed successfully with a chosen role and   *)
(* name, the document stored under the new uid has that role and that      *)
(* name, and, while the new user is signed in and nothing of the auth      *)
(* context is pending, a currentUser that is set has that role; whichever  *)
(* way register's createUserDocument call and the listener's were          *)
(* interleaved.                                                            *)
C26_RegisteredRoleIsStored ==
    registered # None =>
        /\ userDocs[NewUser].role = registered
        /\ userDocs[NewUser].displayName = DisplayName[NewUser]
        /\ (authUser = NewUser /\ AuthSettled /\ currentUser # NoUser) =>
                currentUser.role = registered

\* Call k is a createUserDocument call that was given no additional data:
\* the listener's and loginWithGoogle's.
WithoutData(k) ==
    /\ k \in 1..Len(authCalls)
    /\ authCalls[k].op \in {"listener", "google"}
    /\ authCalls[k].data = NoData

(* C27: no step of a createUserDocument call without additional data       *)
(* changes the role or the displayName of a document that is stored under  *)
(* the uid; when the call finds a document it returns the stored role (the *)
(* listener puts it in currentUser); a document it writes where none was   *)
(* stored has role employee.                                               *)
C27_SignInKeepsExistingDocument ==
    [][\A k \in 1..MaxAuthPending :
          WithoutData(k) =>
              /\ (SetDocResolves(k) /\ userDocs[authCalls[k].uid] = NoDoc) =>
                      userDocs'[authCalls[k].uid].role = "employee"
              /\ (SetDocResolves(k) /\ userDocs[authCalls[k].uid] # NoDoc) =>
                      userDocs' = userDocs
              /\ (GetDocResolves(k) /\ userDocs[authCalls[k].uid] # NoDoc) =>
                      /\ userDocs' = userDocs
                      /\ authCalls[k].op = "listener" =>
                              currentUser'.role = userDocs[authCalls[k].uid].role]_vars

\* The listener has a report to handle or a call in flight: each ends in
\* the listener's setLoading(false).
ListenerPending ==
    \/ authEvents # <<>>
    \/ \E k \in 1..Len(authCalls) : authCalls[k].op = "listener"

(* C28: every login, register or loginWithGoogle attempt is followed by a  *)
(* state with loading false.  Only the listener clears loading, so, as a   *)
(* property of single states: whenever loading is true the listener still  *)
(* has a report or a call pending; a state where it has none keeps the     *)
(* spinner for as long as the user does nothing more.                      *)
C28_LoadingIsCleared == authLoading => ListenerPending

-----------------------------------------------------------------------------
(* The LeaveRequests page (part_001:557-1042).  Each session keeps the     *)
(* list its onSnapshot listener delivered last; a write of the session     *)
(* shows in its own list at once (the SDK raises the snapshot for a local  *)
(* write before the server has answered) and in the other sessions' lists  *)
(* when their listeners are called.                                        *)

MaxLeaveRequests == 2

MaxLeaveCalls == 2

\* The query of the session: an employee gets the own requests, an admin
\* or manager gets all of them
LeaveQuery(s, docs) ==
    LET Keep(doc) == SessionUser[s].role # "employee"
                     \/ doc.employeeId = SessionUser[s].uid
        F[i \in 0..Len(docs)] ==
            IF i = 0 THEN <<>>
            ELSE IF Keep(docs[i]) THEN Append(F[i - 1], docs[i]) ELSE F[i - 1]
    IN  F[Len(docs)]

\* leaveRequests.find(req => req.id === requestId): the position, or 0
FindRequest(list, requestId) ==
    IF \E i \in 1..Len(list) : list[i].id = requestId
    THEN CHOOSE i \in 1..Len(list) : list[i].id = requestId
    ELSE 0

\* The approve and reject buttons of a request are rendered
ReviewOffered(s, requestId) ==
    /\ SessionUser[s].role \in {"admin", "manager"}
    /\ FindRequest(leaveRequests[s], requestId) # 0
    /\ leaveRequests[s][FindRequest(leaveRequests[s], requestId)].status = "pending"

\* The session has a write the server has not answered
LeaveWritePending(s) ==
    \E k \in 1..Len(leaveCalls) :
        leaveCalls[k].session = s /\ leaveCalls[k].stage = "updateDoc"

notLeaveVars == <<orgVars, expandedNodes, authVars, userVars, attendanceVars, taskVars,
                  migrationVars>>

\* handleSubmit with valid dates, addDoc resolves: the request is stored
\* with status pending.  (With startDate after endDate, or when addDoc
\* rejects, the handler shows a toast and nothing is stored.)
SubmitLeave(s) ==
    /\ Len(leaveDocs) < MaxLeaveRequests
    /\ leaveDocs' = Append(leaveDocs,
                           [id |-> Len(leaveDocs) + 1,
                            employeeId |-> SessionUser[s].uid,
                            status |-> "pending", approvedBy |-> None])
    /\ UNCHANGED <<notLeaveVars, leaveRequests, leaveCalls, notifications>>

\* The onSnapshot listener of a session is called with the stored requests
LeaveSnapshot(s) ==
    /\ ~LeaveWritePending(s)
    /\ leaveRequests[s] # LeaveQuery(s, leaveDocs)
    /\ leaveRequests' = [leaveRequests EXCEPT ![s] = LeaveQuery(s, leaveDocs)]
    /\ UNCHANGED <<notLeaveVars, leaveDocs, leaveCalls, notifications>>

\* Click on Approve or Reject: handleStatusUpdate up to await updateDoc
ReviewLeave(s, requestId, newStatus) ==
    /\ ReviewOffered(s, requestId)
    /\ Len(leaveCalls) < MaxLeaveCalls
    /\ LET i == FindRequest(leaveRequests[s], requestId)
       IN  /\ leaveCalls' = Append(leaveCalls,
                                   [session |-> s, stage |-> "updateDoc",
                                    requestId |-> requestId, status |-> newStatus,
                                    request |-> leaveRequests[s][i]])
           /\ leaveRequests' = [leaveRequests EXCEPT ![s][i].status = newStatus,
                                                     ![s][i].approvedBy =
                                                          SessionUser[s].uid]
    /\ UNCHANGED <<notLeaveVars, leaveDocs, notifications>>

\* updateDoc resolves: the stored request takes the status of the call;
\* the handler goes on to the notification
StatusUpdateResolves(k) ==
    /\ k \in 1..Len(leaveCalls)
    /\ leaveCalls[k].stage = "updateDoc"
    /\ leaveDocs' = [leaveDocs EXCEPT
                        ![leaveCalls[k].requestId].status = leaveCalls[k].status,
                        ![leaveCalls[k].requestId].approvedBy =
                            SessionUser[leaveCalls[k].session].uid]
    /\ leaveCalls' = [leaveCalls EXCEPT ![k].stage = "addDoc"]
    /\ UNCHANGED <<notLeaveVars, leaveRequests, notifications>>

\* updateDoc rejects: the catch block; the SDK takes the local write back
StatusUpdateFails(k) ==
    /\ k \in 1..Len(leaveCalls)
    /\ leaveCalls[k].stage = "updateDoc"
    /\ leaveCalls' = Without(leaveCalls, k)
    /\ leaveRequests' =
            [leaveRequests EXCEPT ![leaveCalls[k].session] =
                IF \E j \in 1..Len(leaveCalls) :
                        j # k /\ leaveCalls[j].session = leaveCalls[k].session
                              /\ leaveCalls[j].stage = "updateDoc"
                THEN @
                ELSE LeaveQuery(leaveCalls[k].session, leaveDocs)]
    /\ UNCHANGED <<notLeaveVars, leaveDocs, notifications>>

\* addDoc of the notification resolves
LeaveNotified(k) ==
    /\ k \in 1..Len(leaveCalls)
    /\ leaveCalls[k].stage = "addDoc"
    /\ notifications' = Append(notifications,
                               [userId |-> leaveCalls[k].request.employeeId,
                                type |-> "leave"])
    /\ leaveCalls' = Without(leaveCalls, k)
    /\ UNCHANGED <<notLeaveVars, leaveDocs, leaveRequests>>

\* addDoc of the notification rejects: the catch block
LeaveNotifyFails(k) ==
    /\ k \in 1..Len(leaveCalls)
    /\ leaveCalls[k].stage = "addDoc"
    /\ leaveCalls' = Without(leaveCalls, k)
    /\ UNCHANGED <<notLeaveVars, leaveDocs, leaveRequests, notifications>>

\* The sessions on the LeaveRequests page: the admin's, the manager's and
\* one tab of the employee
LeaveSessions == Sessions \ {"s4"}

LeaveNext ==
    \/ \E s \in LeaveSessions : SubmitLeave(s)
    \/ \E s \in LeaveSessions : LeaveSnapshot(s)
    \/ \E s \in LeaveSessions, requestId \in 1..MaxLeaveRequests,
          newStatus \in {"approved", "rejected"} : ReviewLeave(s, requestId, newStatus)
    \/ \E k \in 1..MaxLeaveCalls : StatusUpdateResolves(k)
    \/ \E k \in 1..MaxLeaveCalls : StatusUpdateFails(k)
    \/ \E k \in 1..MaxLeaveCalls : LeaveNotified(k)
    \/ \E k \in 1..MaxLeaveCalls : LeaveNotifyFails(k)

LeaveSpec == Init /\ [][LeaveNext]_vars

\* The status of the stored request with the given id, "none" before it
\* is submitted
LeaveStatus(docs, requestId) ==
    IF requestId <= Len(docs) THEN docs[requestId].status ELSE "none"

(* C22: every submitted leave request is created with status pending; the  *)
(* stored status of a request changes only by the approve or reject of an  *)
(* admin or manager, and only from pending: once it is approved or         *)
(* rejected it never changes again.                                        *)
C22_LeaveWorkflow ==
    [][\A requestId \in 1..MaxLeaveRequests :
          LeaveStatus(leaveDocs', requestId) # LeaveStatus(leaveDocs, requestId) =>
              \/ /\ LeaveStatus(leaveDocs, requestId) = "none"
                 /\ LeaveStatus(leaveDocs', requestId) = "pending"
              \/ /\ LeaveStatus(leaveDocs, requestId) = "pending"
                 /\ LeaveStatus(leaveDocs', requestId) \in {"approved", "rejected"}
                 /\ \E u \in Users :
                        /\ StoredRole[u] \in {"admin", "manager"}
                        /\ leaveDocs'[requestId].approvedBy = u]_vars

-----------------------------------------------------------------------------
(* The Attendance page (Attendance.tsx), for one user on one calendar      *)
(* date: every stored record is the employee's and is dated today.  The    *)
(* page reads with getDocs, when it mounts and after each check-in and     *)
(* check-out; nothing else refreshes todayAttendance.                      *)

MaxAttendanceDocs == 2

MaxAttendanceCalls == 2

MaxCheckOuts == 2

notAttendanceVars == <<orgVars, expandedNodes, authVars, userVars, leaveVars, taskVars,
                       notifications, migrationVars>>

\* The record of a document, as the page holds it
RecordOfDoc(doc) == [id |-> doc.id, checkOut |-> doc.checkOuts > 0]

\* todayRecord of fetchAttendanceRecords: the last record of the result
\* that is dated today, null when there is none
TodayRecord(docs) == IF docs = <<>> THEN NoRecord ELSE RecordOfDoc(docs[Len(docs)])

\* The page of the tab has not mounted: loading is true and no fetch runs
NotMounted(t) ==
    /\ attendanceLoading[t]
    /\ \A k \in 1..Len(attendanceCalls) : attendanceCalls[k].tab # t

\* The button the page renders below the loading spinner
CheckInOffered(t) == ~attendanceLoading[t] /\ todayAttendance[t] = NoRecord

CheckOutOffered(t) ==
    /\ ~attendanceLoading[t]
    /\ todayAttendance[t] # NoRecord
    /\ ~todayAttendance[t].checkOut

AttendanceCall(t, stage, id, result) ==
    [tab |-> t, stage |-> stage, id |-> id, result |-> result]

\* The page mounts: the effect calls fetchAttendanceRecords, up to await
\* getDocs
MountAttendance(t) ==
    /\ NotMounted(t)
    /\ Len(attendanceCalls) < MaxAttendanceCalls
    /\ attendanceCalls' = Append(attendanceCalls, AttendanceCall(t, "getDocs", 0, NoRecord))
    /\ UNCHANGED <<notAttendanceVars, attendanceDocs, todayAttendance, attendanceLoading>>

\* The server evaluates the query of a fetch
FetchReads(k) ==
    /\ k \in 1..Len(attendanceCalls)
    /\ attendanceCalls[k].stage = "getDocs"
    /\ attendanceCalls' = [attendanceCalls EXCEPT
                              ![k].stage = "querySnapshot",
                              ![k].result = TodayRecord(attendanceDocs)]
    /\ UNCHANGED <<notAttendanceVars, attendanceDocs, todayAttendance, attendanceLoading>>

\* getDocs resolves: setTodayAttendance(todayRecord), then the finally
\* block
FetchResolves(k) ==
    /\ k \in 1..Len(attendanceCalls)
    /\ attendanceCalls[k].stage = "querySnapshot"
    /\ todayAttendance' = [todayAttendance EXCEPT
                              ![attendanceCalls[k].tab] = attendanceCalls[k].result]
    /\ attendanceLoading' = [attendanceLoading EXCEPT ![attendanceCalls[k].tab] = FALSE]
    /\ attendanceCalls' = Without(attendanceCalls, k)
    /\ UNCHANGED <<notAttendanceVars, attendanceDocs>>

\* getDocs rejects (the answer does not arrive): the catch block, then the
\* finally block
FetchRejects(k) ==
    /\ k \in 1..Len(attendanceCalls)
    /\ attendanceCalls[k].stage = "querySnapshot"
    /\ attendanceLoading' = [attendanceLoading EXCEPT ![attendanceCalls[k].tab] = FALSE]
    /\ attendanceCalls' = Without(attendanceCalls, k)
    /\ UNCHANGED <<notAttendanceVars, attendanceDocs, todayAttendance>>

\* Click on Check In: handleCheckIn up to await addDoc
HandleCheckIn(t) ==
    /\ CheckInOffered(t)
    /\ Len(attendanceCalls) < MaxAttendanceCalls
    /\ attendanceCalls' = Append(attendanceCalls, AttendanceCall(t, "addDoc", 0, NoRecord))
    /\ UNCHANGED <<notAttendanceVars, attendanceDocs, todayAttendance, attendanceLoading>>

\* The documents with one more, at the place its generated id gives it in
\* the result of the query
Inserted(docs, doc, i) == SubSeq(docs, 1, i - 1) \o <<doc>> \o SubSeq(docs, i, Len(docs))

\* addDoc resolves: a record with checkIn is stored, and the handler calls
\* fetchAttendanceRecords
CheckInResolves(k) ==
    /\ k \in 1..Len(attendanceCalls)
    /\ attendanceCalls[k].stage = "addDoc"
    /\ Len(attendanceDocs) < MaxAttendanceDocs
    /\ \E i \in 1..(Len(attendanceDocs) + 1) :
          attendanceDocs' = Inserted(attendanceDocs,
                                     [id |-> Len(attendanceDocs) + 1, checkIn |-> TRUE,
                                      checkOuts |-> 0], i)
    /\ attendanceCalls' = [attendanceCalls EXCEPT ![k].stage = "getDocs"]
    /\ UNCHANGED <<notAttendanceVars, todayAttendance, attendanceLoading>>

\* Click on Check Out: handleCheckOut up to await updateDoc
HandleCheckOut(t) ==
    /\ CheckOutOffered(t)
    /\ Len(attendanceCalls) < MaxAttendanceCalls
    /\ attendanceCalls' = Append(attendanceCalls,
                                 AttendanceCall(t, "updateDoc", todayAttendance[t].id,
                                                NoRecord))
    /\ UNCHANGED <<notAttendanceVars, attendanceDocs, todayAttendance, attendanceLoading>>

\* updateDoc resolves: checkOut and totalHours are written, and the
\* handler calls fetchAttendanceRecords
CheckOutResolves(k) ==
    /\ k \in 1..Len(attendanceCalls)
    /\ attendanceCalls[k].stage = "updateDoc"
    /\ \E i \in 1..Len(attendanceDocs) :
          /\ attendanceDocs[i].id = attendanceCalls[k].id
          /\ attendanceDocs[i].checkOuts < MaxCheckOuts
          /\ attendanceDocs' = [attendanceDocs EXCEPT ![i].checkOuts = @ + 1]
    /\ attendanceCalls' = [attendanceCalls EXCEPT ![k].stage = "getDocs"]
    /\ UNCHANGED <<notAttendanceVars, todayAttendance, attendanceLoading>>

\* addDoc or updateDoc rejects: the catch block
AttendanceWriteFails(k) ==
    /\ k \in 1..Len(attendanceCalls)
    /\ attendanceCalls[k].stage \in {"addDoc", "updateDoc"}
    /\ attendanceCalls' = Without(attendanceCalls, k)
    /\ UNCHANGED <<notAttendanceVars, attendanceDocs, todayAttendance, attendanceLoading>>

AttendanceNext ==
    \/ \E t \in Tabs : MountAttendance(t)
    \/ \E k \in 1..MaxAttendanceCalls : FetchReads(k)
    \/ \E k \in 1..MaxAttendanceCalls : FetchResolves(k)
    \/ \E k \in 1..MaxAttendanceCalls : FetchRejects(k)
    \/ \E t \in Tabs : HandleCheckIn(t)
    \/ \E k \in 1..MaxAttendanceCalls : CheckInResolves(k)
    \/ \E t \in Tabs : HandleCheckOut(t)
    \/ \E k \in 1..MaxAttendanceCalls : CheckOutResolves(k)
    \/ \E k \in 1..MaxAttendanceCalls : AttendanceWriteFails(k)

AttendanceSpec == Init /\ [][AttendanceNext]_vars

\* The stored record of today has a checkOut
CheckedOut == \E i \in 1..Len(attendanceDocs) : attendanceDocs[i].checkOuts > 0

(* C23: Check In is offered only while no record of today is stored, Check *)
(* Out only while a record of today is stored and none has a checkOut, and *)
(* neither once a record has a checkOut; no record has a checkOut without  *)
(* a checkIn, and no checkOut is written twice.                            *)
C23_AttendanceOrder ==
    /\ \A t \in Tabs :
          /\ CheckInOffered(t) => attendanceDocs = <<>>
          /\ CheckOutOffered(t) => (attendanceDocs # <<>> /\ ~CheckedOut)
    /\ \A i \in 1..Len(attendanceDocs) :
          /\ attendanceDocs[i].checkOuts > 0 => attendanceDocs[i].checkIn
          /\ attendanceDocs[i].checkOuts <= 1

(* C24: the attendance collection holds at most one record for the user    *)
(* and the date.                                                           *)
C24_OneRecordPerDay == Len(attendanceDocs) <= 1

-----------------------------------------------------------------------------
(* The Tasks page (part_001:17-544).  As on the LeaveRequests page, each   *)
(* session keeps the list its snapshot listener delivered last, and shows  *)
(* its own writes at once.  The writes of one session reach the server in  *)
(* the order they were made.                                               *)

MaxTasks == 2

MaxTaskCalls == 2

TaskStatuses == {"pending", "in-progress", "completed"}

\* The tasks that are stored when the pages open: each was assigned by the
\* admin to the manager or to the employee
StoredTasks ==
    UNION {[1..n -> [status : TaskStatuses, assignedTo : {"u2", "u3"},
                     assignedBy : {"u1"}]] : n \in 1..MaxTasks}

TasksInit ==
    /\ OrgMounted
    /\ AuthSignedIn("u1")
    /\ UsersInit
    /\ NoLeave
    /\ NoAttendance
    /\ notifications = <<>>
    /\ NoMigration
    /\ \E stored \in StoredTasks :
          taskDocs = [i \in 1..Len(stored) |->
                         [id |-> i, status |-> stored[i].status,
                          assignedTo |-> stored[i].assignedTo,
                          assignedBy |-> stored[i].assignedBy]]
    /\ tasks = [s \in Sessions |-> <<>>]
    /\ taskCalls = <<>>

\* The query of the session: an employee gets the tasks assigned to the own
\* uid (subscribeAssignedTasks), an admin or manager gets all tasks
TasksQuery(s, docs) ==
    LET Keep(doc) == SessionUser[s].role # "employee"
                     \/ doc.assignedTo = SessionUser[s].uid
        F[i \in 0..Len(docs)] ==
            IF i = 0 THEN <<>>
            ELSE IF Keep(docs[i]) THEN Append(F[i - 1], docs[i]) ELSE F[i - 1]
    IN  F[Len(docs)]

\* tasks.find(t => t.id === taskId): the position, or 0
FindTask(list, taskId) ==
    IF \E i \in 1..Len(list) : list[i].id = taskId
    THEN CHOOSE i \in 1..Len(list) : list[i].id = taskId
    ELSE 0

\* The status select of a task is rendered
StatusSelectOffered(s, taskId) ==
    /\ FindTask(tasks[s], taskId) # 0
    /\ tasks[s][FindTask(tasks[s], taskId)].assignedTo = SessionUser[s].uid
    /\ tasks[s][FindTask(tasks[s], taskId)].status # "completed"

TaskWritePending(s) == \E k \in 1..Len(taskCalls) : taskCalls[k].session = s

notTaskVars == <<orgVars, expandedNodes, authVars, userVars, leaveVars, attendanceVars,
                 notifications, migrationVars>>

\* The snapshot listener of a session is called with the stored tasks
TasksSnapshot(s) ==
    /\ ~TaskWritePending(s)
    /\ tasks[s] # TasksQuery(s, taskDocs)
    /\ tasks' = [tasks EXCEPT ![s] = TasksQuery(s, taskDocs)]
    /\ UNCHANGED <<notTaskVars, taskDocs, taskCalls>>

\* A change of the status select: handleStatusUpdate up to await updateDoc.
\* A task that is completed in the session's list is locked: a toast, and
\* nothing is written.
HandleStatusUpdate(s, taskId, newStatus) ==
    /\ StatusSelectOffered(s, taskId)
    /\ Len(taskCalls) < MaxTaskCalls
    /\ LET i == FindTask(tasks[s], taskId)
       IN  /\ newStatus # tasks[s][i].status
           /\ IF tasks[s][i].status = "completed"
              THEN UNCHANGED <<taskCalls, tasks>>
              ELSE /\ taskCalls' = Append(taskCalls, [session |-> s, taskId |-> taskId,
                                                      status |-> newStatus])
                   /\ tasks' = [tasks EXCEPT ![s][i].status = newStatus]
    /\ UNCHANGED <<notTaskVars, taskDocs>>

\* The call is the oldest write of its session that is still pending
OldestOfSession(k) ==
    \A j \in 1..(k - 1) : taskCalls[j].session # taskCalls[k].session

\* updateDoc resolves: the stored task takes the status of the call
TaskUpdateResolves(k) ==
    /\ k \in 1..Len(taskCalls)
    /\ OldestOfSession(k)
    /\ taskDocs' = [taskDocs EXCEPT ![taskCalls[k].taskId].status = taskCalls[k].status]
    /\ taskCalls' = Without(taskCalls, k)
    /\ UNCHANGED <<notTaskVars, tasks>>

\* updateDoc rejects: the catch block; the SDK takes the local write back
TaskUpdateFails(k) ==
    /\ k \in 1..Len(taskCalls)
    /\ OldestOfSession(k)
    /\ taskCalls' = Without(taskCalls, k)
    /\ tasks' = [tasks EXCEPT ![taskCalls[k].session] =
                    IF \E j \in 1..Len(taskCalls) :
                            j # k /\ taskCalls[j].session = taskCalls[k].session
                    THEN @
                    ELSE TasksQuery(taskCalls[k].session, taskDocs)]
    /\ UNCHANGED <<notTaskVars, taskDocs>>

\* The sessions on the Tasks page: the manager's and the employee's two tabs
TaskSessions == Sessions \ {"s1"}

TasksNext ==
    \/ \E s \in TaskSessions : TasksSnapshot(s)
    \/ \E s \in TaskSessions, taskId \in 1..MaxTasks, newStatus \in TaskStatuses :
          HandleStatusUpdate(s, taskId, newStatus)
    \/ \E k \in 1..MaxTaskCalls : TaskUpdateResolves(k)
    \/ \E k \in 1..MaxTaskCalls : TaskUpdateFails(k)

TasksSpec == TasksInit /\ [][TasksNext]_vars

(* C25: once the stored status of a task is completed, no call of          *)
(* handleStatusUpdate changes it.                                          *)
C25_CompletedTaskIsLocked ==
    [][\A taskId \in 1..Len(taskDocs) :
          taskDocs[taskId].status = "completed" =>
              taskDocs'[taskId].status = "completed"]_vars

-----------------------------------------------------------------------------
(* createTaskForEmployee and resolveEmployeeUidByEmployeeId (the tasks     *)
(* service, App.tsx:87-155), one call at a time.                           *)

MaxCreatedTasks == 2

\* ids of documents of the employees collection
EmployeeIds == {"E1", "E2"}

\* the email field of each user document
Email == [u1 |-> "ann@x", u2 |-> "ben@x", u3 |-> "cy@x", u4 |-> "dee@x"]

\* snap.exists() is false
NoEmployee == [email |-> None, userUid |-> None]

\* The employee documents there may be: with or without an email, which
\* may or may not be that of a user document, and with a userUid that is
\* missing, empty or set
EmployeeRecords ==
    [email : {Undefined, Email["u3"], Email["u4"]}, userUid : {Undefined, "", "u2"}]

EmployeeCollections == [EmployeeIds -> EmployeeRecords \cup {NoEmployee}]

\* usersSnap.docs[0] of the query where('email', '==', email): the uid, or
\* None when no user document has the email
UserByEmail(email) ==
    IF \E uid \in AllUsers : userDocs[uid] # NoDoc /\ Email[uid] = email
    THEN CHOOSE uid \in AllUsers : userDocs[uid] # NoDoc /\ Email[uid] = email
    ELSE None

CreationInit ==
    /\ OrgMounted
    /\ AuthSignedIn("u1")
    /\ UsersInit
    /\ NoLeave
    /\ NoAttendance
    /\ NoTasks
    /\ notifications = <<>>
    /\ employeeDocs \in EmployeeCollections
    /\ creation = Idle
    /\ sync = Idle

notCreationVars == <<orgVars, expandedNodes, authVars, userVars, leaveVars, attendanceVars,
                     tasks, taskCalls, employeeDocs, sync>>

\* assignedTo of createTaskForEmployee
AssignedToUidOnly(assignedUid, assignedEmployeeId) == assignedUid

AssignedTo(assignedUid, assignedEmployeeId) ==
    IF assignedUid # None THEN assignedUid ELSE assignedEmployeeId

\* A call starts: resolveEmployeeUidByEmployeeId up to await getDoc.  The
\* record also keeps what was stored when the call started.
CreateTaskForEmployee(creator, assignedEmployeeId) ==
    /\ creation.pc \in {"idle", "returned", "thrown"}
    /\ Len(taskDocs) < MaxCreatedTasks
    /\ creation' = [pc |-> "getDoc", creator |-> creator,
                    assignedEmployeeId |-> assignedEmployeeId, email |-> None,
                    assignedTo |-> None, result |-> None, resolved |-> TRUE,
                    tasksBefore |-> taskDocs, notificationsBefore |-> notifications]
    /\ UNCHANGED <<notCreationVars, taskDocs, notifications>>

\* getDoc of the employee resolves: no document, a userUid, an email to
\* look up, or neither
EmployeeRead ==
    /\ creation.pc = "getDoc"
    /\ LET emp == employeeDocs[creation.assignedEmployeeId]
       IN  creation' =
               IF emp = NoEmployee
               THEN [creation EXCEPT !.pc = "addTask",
                                     !.assignedTo = AssignedTo(None, creation.assignedEmployeeId)]
               ELSE IF ~Unset(emp.userUid)
               THEN [creation EXCEPT !.pc = "addTask",
                                     !.assignedTo = AssignedTo(emp.userUid,
                                                               creation.assignedEmployeeId)]
               ELSE IF ~Unset(emp.email)
               THEN [creation EXCEPT !.pc = "getDocs", !.email = emp.email]
               ELSE [creation EXCEPT !.pc = "addTask",
                                     !.assignedTo = AssignedTo(None, creation.assignedEmployeeId)]
    /\ UNCHANGED <<notCreationVars, taskDocs, notifications>>

\* getDocs of the users with the employee's email resolves
UsersRead ==
    /\ creation.pc = "getDocs"
    /\ creation' = [creation EXCEPT !.pc = "addTask",
                                    !.assignedTo = AssignedTo(UserByEmail(creation.email),
                                                              creation.assignedEmployeeId)]
    /\ UNCHANGED <<notCreationVars, taskDocs, notifications>>

\* getDoc or getDocs rejects: the catch block returns { uid: null }
ResolutionFails ==
    /\ creation.pc \in {"getDoc", "getDocs"}
    /\ creation' = [creation EXCEPT !.pc = "addTask", !.resolved = FALSE,
                                    !.assignedTo = AssignedTo(None, creation.assignedEmployeeId)]
    /\ UNCHANGED <<notCreationVars, taskDocs, notifications>>

\* addDoc of the task resolves
TaskAdded ==
    /\ creation.pc = "addTask"
    /\ taskDocs' = Append(taskDocs, [id |-> Len(taskDocs) + 1, status |-> "pending",
                                     assignedTo |-> creation.assignedTo,
                                     assignedBy |-> creation.creator])
    /\ creation' = [creation EXCEPT !.pc = "addNotification",
                                    !.result = Len(taskDocs) + 1]
    /\ UNCHANGED <<notCreationVars, notifications>>

\* addDoc of the task rejects: createTaskForEmployee rejects
TaskAddFails ==
    /\ creation.pc = "addTask"
    /\ creation' = [creation EXCEPT !.pc = "thrown"]
    /\ UNCHANGED <<notCreationVars, taskDocs, notifications>>

\* addDoc of the notification resolves: docRef.id is returned
TaskNotified ==
    /\ creation.pc = "addNotification"
    /\ notifications' = Append(notifications,
                               [userId |-> creation.assignedTo, type |-> "task"])
    /\ creation' = [creation EXCEPT !.pc = "returned"]
    /\ UNCHANGED <<notCreationVars, taskDocs>>

\* addDoc of the notification rejects: the empty catch block, docRef.id is
\* returned
TaskNotifyFails ==
    /\ creation.pc = "addNotification"
    /\ creation' = [creation EXCEPT !.pc = "returned"]
    /\ UNCHANGED <<notCreationVars, taskDocs, notifications>>

CreationNext ==
    \/ \E assignedEmployeeId \in EmployeeIds : CreateTaskForEmployee("u1", assignedEmployeeId)
    \/ EmployeeRead
    \/ UsersRead
    \/ ResolutionFails
    \/ TaskAdded
    \/ TaskAddFails
    \/ TaskNotified
    \/ TaskNotifyFails

CreationSpec == CreationInit /\ [][CreationNext]_vars

\* The auth uid the statement names for an employee document id: the
\* stored userUid, else the uid of the user with the same email, else the
\* document id itself
OwnerOf(employeeId) ==
    LET emp == employeeDocs[employeeId]
    IN  IF emp = NoEmployee THEN employeeId
        ELSE IF ~Unset(emp.userUid) THEN emp.userUid
        ELSE IF ~Unset(emp.email) /\ UserByEmail(emp.email) # None
        THEN UserByEmail(emp.email)
        ELSE employeeId

(* C29: when createTaskForEmployee has returned, exactly one task has been *)
(* added, with status pending and with assignedTo the resolved uid of the  *)
(* employee, or the employee document id when none resolves or resolution  *)
(* failed, its id is the returned one, and at most the task's notification *)
(* has been added; when it has thrown, neither a task nor a notification   *)
(* has been added.                                                         *)
C29_OneTaskBestEffortNotification ==
    /\ creation.pc = "returned" =>
          /\ Len(taskDocs) = Len(creation.tasksBefore) + 1
          /\ Front(taskDocs) = creation.tasksBefore
          /\ Last(taskDocs).status = "pending"
          /\ Last(taskDocs).id = creation.result
          /\ Last(taskDocs).assignedTo =
                 IF creation.resolved THEN OwnerOf(creation.assignedEmployeeId)
                 ELSE creation.assignedEmployeeId
          /\ \/ notifications = creation.notificationsBefore
             \/ notifications = Append(creation.notificationsBefore,
                                       [userId |-> Last(taskDocs).assignedTo,
                                        type |-> "task"])
    /\ creation.pc = "thrown" =>
          /\ taskDocs = creation.tasksBefore
          /\ notifications = creation.notificationsBefore

\* A call has returned the id of a task assigned by the email lookup,
\* although its notification could not be written.
C29_Witness ==
    /\ creation.pc = "returned"
    /\ notifications = creation.notificationsBefore
    /\ Last(taskDocs).assignedTo = "u3"
    /\ Last(taskDocs).id = creation.result

-----------------------------------------------------------------------------
(* The Sync Accounts handler of the Employees page (Employees.tsx:192-224) *)
(* run by the admin, with nothing else writing.                            *)

MaxSyncTasks == 2

MaxSyncNotifications == 1

MaxSyncRuns == 2

\* employeesSnap.docs: the ids in the order of the snapshot
EmployeeIdSeq == <<"E1", "E2">>

\* Tasks and notifications are owned by an employee document id (created
\* before the employee had an account) or by a uid
Owners == EmployeeIds \cup {"u3"}

SyncTasks ==
    UNION {[1..n -> [status : {"pending"}, assignedTo : Owners, assignedBy : {"u1"}]] :
              n \in 0..MaxSyncTasks}

SyncNotifications ==
    UNION {[1..n -> [userId : Owners, type : {"task"}]] : n \in 0..MaxSyncNotifications}

SyncInit ==
    /\ OrgMounted
    /\ AuthSignedIn("u1")
    /\ UsersInit
    /\ NoLeave
    /\ NoAttendance
    /\ employeeDocs \in EmployeeCollections
    /\ \E stored \in SyncTasks :
          taskDocs = [i \in 1..Len(stored) |->
                         [id |-> i, status |-> stored[i].status,
                          assignedTo |-> stored[i].assignedTo,
                          assignedBy |-> stored[i].assignedBy]]
    /\ tasks = [s \in Sessions |-> <<>>]
    /\ taskCalls = <<>>
    /\ notifications \in SyncNotifications
    /\ creation = Idle
    /\ sync = [pc |-> "idle", run |-> 0, completed |-> 0]

notSyncVars == <<orgVars, expandedNodes, authVars, userVars, leaveVars, attendanceVars,
                 tasks, taskCalls, creation>>

\* The next document of the snapshot after position i that has an email,
\* or 0 when the loop ends
NextWithEmail(snap, i) ==
    IF \E j \in (i + 1)..Len(snap) : ~Unset(snap[j].email)
    THEN CHOOSE j \in (i + 1)..Len(snap) :
            /\ ~Unset(snap[j].email)
            /\ \A l \in (i + 1)..(j - 1) : Unset(snap[l].email)
    ELSE 0

\* The loop goes on after document i: to the users query of the next
\* document with an email, or to the toast 'Sync complete'
Continue(snap, i) ==
    IF NextWithEmail(snap, i) = 0
    THEN [pc |-> "complete", run |-> sync.run, completed |-> sync.completed + 1]
    ELSE [pc |-> "users", run |-> sync.run, completed |-> sync.completed,
          snap |-> snap, i |-> NextWithEmail(snap, i), uid |-> None,
          setUserUid |-> FALSE, tasksSnap |-> {}, notifSnap |-> {}]

\* Click on Sync Accounts: the handler up to await getDocs of the employees
SyncAccounts ==
    /\ currentUser.role = "admin"
    /\ sync.pc \in {"idle", "complete", "failed"}
    /\ sync.run < MaxSyncRuns
    /\ sync' = [pc |-> "employees", run |-> sync.run + 1, completed |-> sync.completed]
    /\ UNCHANGED <<notSyncVars, employeeDocs, taskDocs, notifications>>

\* getDocs of the employees resolves: the loop starts
EmployeesFound ==
    /\ sync.pc = "employees"
    /\ LET ids == SelectSeq(EmployeeIdSeq, LAMBDA e : employeeDocs[e] # NoEmployee)
           snap == [j \in 1..Len(ids) |->
                       [id |-> ids[j], email |-> employeeDocs[ids[j]].email,
                        userUid |-> employeeDocs[ids[j]].userUid]]
       IN  sync' = Continue(snap, 0)
    /\ UNCHANGED <<notSyncVars, employeeDocs, taskDocs, notifications>>

\* getDocs of the users with the employee's email resolves: without a user
\* the loop continues, with one the batch is started
UsersFound ==
    /\ sync.pc = "users"
    /\ LET emp == sync.snap[sync.i]
           uid == UserByEmail(emp.email)
       IN  sync' = IF uid = None THEN Continue(sync.snap, sync.i)
                   ELSE [sync EXCEPT !.pc = "tasks", !.uid = uid,
                                     !.setUserUid = (emp.userUid # uid)]
    /\ UNCHANGED <<notSyncVars, employeeDocs, taskDocs, notifications>>

\* The tasks the query where('assignedTo', '==', empDoc.id) returns
TasksOfNobody(employeeId) == {}

TasksOf(employeeId) ==
    {i \in 1..Len(taskDocs) : taskDocs[i].assignedTo = employeeId}

\* getDocs of the tasks assigned to the document id resolves
TasksFound ==
    /\ sync.pc = "tasks"
    /\ sync' = [sync EXCEPT !.pc = "notifications",
                            !.tasksSnap = TasksOf(sync.snap[sync.i].id)]
    /\ UNCHANGED <<notSyncVars, employeeDocs, taskDocs, notifications>>

\* getDocs of the notifications for the document id resolves
NotificationsFound ==
    /\ sync.pc = "notifications"
    /\ sync' = [sync EXCEPT !.pc = "commit",
                            !.notifSnap = {j \in 1..Len(notifications) :
                                              notifications[j].userId =
                                                  sync.snap[sync.i].id}]
    /\ UNCHANGED <<notSyncVars, employeeDocs, taskDocs, notifications>>

\* batch.commit() resolves: the updates of the batch are applied together
BatchCommitted ==
    /\ sync.pc = "commit"
    /\ employeeDocs' = IF sync.setUserUid
                       THEN [employeeDocs EXCEPT ![sync.snap[sync.i].id].userUid = sync.uid]
                       ELSE employeeDocs
    /\ taskDocs' = [i \in 1..Len(taskDocs) |->
                       IF i \in sync.tasksSnap
                       THEN [taskDocs[i] EXCEPT !.assignedTo = sync.uid]
                       ELSE taskDocs[i]]
    /\ notifications' = [j \in 1..Len(notifications) |->
                            IF j \in sync.notifSnap
                            THEN [notifications[j] EXCEPT !.userId = sync.uid]
                            ELSE notifications[j]]
    /\ sync' = Continue(sync.snap, sync.i)
    /\ UNCHANGED notSyncVars

\* An await of the handler rejects: the catch block, toast 'Sync failed'
SyncFails ==
    /\ sync.pc \in {"employees", "users", "tasks", "notifications", "commit"}
    /\ sync' = [pc |-> "failed", run |-> sync.run, completed |-> sync.completed]
    /\ UNCHANGED <<notSyncVars, employeeDocs, taskDocs, notifications>>

SyncNext ==
    \/ SyncAccounts
    \/ EmployeesFound
    \/ UsersFound
    \/ TasksFound
    \/ NotificationsFound
    \/ BatchCommitted
    \/ SyncFails

SyncSpec == SyncInit /\ [][SyncNext]_vars

\* The employee document has an email that a user document has
Matched(employeeId) ==
    /\ employeeDocs[employeeId] # NoEmployee
    /\ ~Unset(employeeDocs[employeeId].email)
    /\ UserByEmail(employeeDocs[employeeId].email) # None

\* What 'Sync complete' promises
Synced ==
    \A e \in EmployeeIds :
        Matched(e) =>
            /\ employeeDocs[e].userUid = UserByEmail(employeeDocs[e].email)
            /\ \A i \in 1..Len(taskDocs) : taskDocs[i].assignedTo # e
            /\ \A j \in 1..Len(notifications) : notifications[j].userId # e

\* The ownership fields
Ownership ==
    <<[e \in EmployeeIds |-> employeeDocs[e].userUid],
      [i \in 1..Len(taskDocs) |-> taskDocs[i].assignedTo],
      [j \in 1..Len(notifications) |-> notifications[j].userId]>>

\* The step moves one employee, and everything of that employee, to the
\* user with the employee's email
MovesOneEmployee ==
    \E e \in EmployeeIds :
        /\ Matched(e)
        /\ LET uid == UserByEmail(employeeDocs[e].email)
           IN  /\ employeeDocs' = [employeeDocs EXCEPT ![e].userUid = uid]
               /\ Len(taskDocs') = Len(taskDocs)
               /\ \A i \in 1..Len(taskDocs) :
                     taskDocs'[i].assignedTo =
                         IF taskDocs[i].assignedTo = e THEN uid
                         ELSE taskDocs[i].assignedTo
               /\ Len(notifications') = Len(notifications)
               /\ \A j \in 1..Len(notifications) :
                     notifications'[j].userId =
                         IF notifications[j].userId = e THEN uid
                         ELSE notifications[j].userId

(* C30: with nothing else writing, when a run of Sync Accounts reports     *)
(* 'Sync complete', every employee whose email is that of a user document  *)
(* has that user's uid as userUid, and no task is assigned to and no       *)
(* notification addressed to that employee's document id; a step that      *)
(* changes an ownership field moves one employee with all its tasks and    *)
(* notifications at once; and once a run has completed, no later run       *)
(* changes an ownership field.                                             *)
C30_SyncMigratesOwnership ==
    [][/\ sync'.pc = "complete" => Synced'
       /\ Ownership' # Ownership => MovesOneEmployee
       /\ sync.completed > 0 => Ownership' = Ownership]_vars

\* A second run has completed after a first one moved the employee E1,
\* its task and its notification to the user u3.
C30_Witness ==
    /\ sync.pc = "complete"
    /\ sync.completed = 2
    /\ employeeDocs["E1"].userUid = "u3"
    /\ employeeDocs["E1"].email = Email["u3"]
    /\ Len(taskDocs) > 0 /\ taskDocs[1].assignedTo = "u3"
    /\ notifications # <<>> /\ notifications[1].userId = "u3"

====
